---- MODULE Spec2Model ----
(***************************************************************************)
(* Model of the sopy gateway: the admin socket server (admin_socket.py),   *)
(* the SQLite config store it owns, and the OpenAI-compatible router       *)
(* (openai_router.py) with its module-level registered_models table.       *)
(*                                                                         *)
(* start_server.py starts two operating-system processes: one runs         *)
(* sopy.admin_socket, the other runs uvicorn with sopy.main:app.  Each     *)
(* process imports openai_router on its own, so each holds its own         *)
(* registered_models dictionary.  Each process runs one asyncio event      *)
(* loop: a task keeps the loop until it reaches an await that suspends.    *)
(* The sqlite3 calls are synchronous and `await update_openai_router()`    *)
(* runs a coroutine without any suspending await, so a command handler     *)
(* keeps the loop from the arrival of its data to writer.drain().          *)
(* The handler is split into steps at each access to shared state; the     *)
(* loop token `running` forbids any other task of the process in between.  *)
(***************************************************************************)
EXTENDS Integers, Sequences, FiniteSets, TLC

(* ---------------------------------------------------------------- bounds *)
\* the most rows the backends table holds in the model
MaxBackendRows == 2

\* the largest id the model lets user_api_keys assign
MaxKeyId == 3

Providers == {"A", "B"}
Urls == {"u1", "u2"}
Models == {"m1", "m2"}
\* the admin connections open at a time, and the HTTP requests in flight
Conns == {1, 2}
Reqs == {1}

\* values of the credential and API-key commands
Names == {"n1", "n2"}
Credentials == {"c1", "c2"}
ApiKeys == {"k1", "k2"}
Descriptions == {"d1"}
Times == {"t1", "t2"}
KeyIds == 1..MaxKeyId

AdminProc == "admin"
MainProc == "main"
Procs == {AdminProc, MainProc}

VARIABLES
    admin_credentials,  \* table admin_credentials: rows <<name, credentials>> in rowid order
    user_api_keys,      \* table user_api_keys: rows [id, api_key, description, created_at, is_active]
    key_seq,            \* sqlite_sequence of user_api_keys: the largest id ever assigned
    locked,             \* a connection a handler left open holds the write lock of the database file
    issued,             \* history: every id a row of user_api_keys ever had
    backends,           \* table backends: rows <<provider, url>> in rowid order
    model_mappings,     \* table model_mappings: rows <<model_name, provider>> in rowid order
    registered_models,  \* per process: the dict openai_router.registered_models
    complete,           \* per process: the table as the last finished rebuild left it
    running,            \* per process: the task that holds the event loop
    boot,               \* admin process: "scheduled" until the start-up rebuild ran
    conn,               \* per admin connection: pc, command, response
    rb,                 \* per process: locals of the update in progress
    req                 \* per router request: pc, inputs, outcome

vars == <<admin_credentials, user_api_keys, key_seq, locked, issued,
          backends, model_mappings, registered_models, complete, running, boot, conn, rb, req>>

\* the tables and the lock that the routing code never touches
authVars == <<admin_credentials, user_api_keys, key_seq, locked, issued>>

(* ------------------------------------------------------- python dicts *)
\* A dict is a sequence of <<key, value>> pairs with distinct keys, in insertion order.
EmptyDict == <<>>

Keys(d) == {d[i][1] : i \in DOMAIN d}

KeyList(d) == [i \in DOMAIN d |-> d[i][1]]

HasKey(d, k) == \E i \in DOMAIN d : d[i][1] = k

Get(d, k) == d[CHOOSE i \in DOMAIN d : d[i][1] = k][2]

\* d[k] = v: an existing key keeps its place, a new key goes last
DictPut(d, k, v) ==
    IF HasKey(d, k)
    THEN [i \in DOMAIN d |-> IF d[i][1] = k THEN <<k, v>> ELSE d[i]]
    ELSE Append(d, <<k, v>>)

DictDel(d, k) == SelectSeq(d, LAMBDA e : e[1] # k)

(* ------------------------------------------------------- config store *)
HasRow(rows, r) == \E i \in DOMAIN rows : rows[i] = r

\* an insert that replaces a stored pair by a new row at the end
InsertOrReplaceBackend(rows, p, u) ==
    Append(SelectSeq(rows, LAMBDA r : r # <<p, u>>), <<p, u>>)

\* INSERT OR IGNORE INTO backends: UNIQUE(provider, url) makes the statement
\* a no-op for a stored pair, a new row gets the next id
InsertOrIgnoreBackend(rows, p, u) ==
    IF HasRow(rows, <<p, u>>) THEN rows ELSE Append(rows, <<p, u>>)

\* DELETE FROM backends WHERE provider = ? AND url = ?
DeleteBackend(rows, p, u) == SelectSeq(rows, LAMBDA r : r # <<p, u>>)

\* an insert that keeps the row a model already has
InsertOrIgnoreMapping(rows, m, p) ==
    IF \E i \in DOMAIN rows : rows[i][1] = m THEN rows ELSE Append(rows, <<m, p>>)

\* INSERT OR REPLACE INTO model_mappings: the row of the same model_name is
\* deleted and the new row gets rowid max+1, so it is scanned last
InsertOrReplaceMapping(rows, m, p) ==
    Append(SelectSeq(rows, LAMBDA r : r[1] # m), <<m, p>>)

\* DELETE FROM model_mappings WHERE model_name = ?
DeleteMapping(rows, m) == SelectSeq(rows, LAMBDA r : r[1] # m)

\* INSERT OR IGNORE INTO admin_credentials: a stored name keeps its row
InsertOrIgnoreCredential(rows, name, credentials) ==
    IF \E i \in DOMAIN rows : rows[i][1] = name THEN rows ELSE Append(rows, <<name, credentials>>)

\* INSERT OR REPLACE INTO admin_credentials: name is the PRIMARY KEY, the row
\* of the same name is deleted and the new row is stored last
InsertOrReplaceCredential(rows, name, credentials) ==
    Append(SelectSeq(rows, LAMBDA r : r[1] # name), <<name, credentials>>)

\* DELETE FROM admin_credentials WHERE name = ?
DeleteCredential(rows, name) == SelectSeq(rows, LAMBDA r : r[1] # name)

\* api_key TEXT UNIQUE: the INSERT of a stored api_key raises IntegrityError
KeyExists(rows, api_key) == \E i \in DOMAIN rows : rows[i].api_key = api_key

\* an insert that gives the row the id after the largest id now in the table
InsertKeyAfterLargest(rows, seq, api_key, description, now) ==
    LET ids == {rows[i].id : i \in DOMAIN rows}
        largest == IF ids = {} THEN 0 ELSE CHOOSE i \in ids : \A j \in ids : j <= i
    IN  Append(rows, [id |-> largest + 1, api_key |-> api_key, description |-> description,
                      created_at |-> now, is_active |-> TRUE])

\* INSERT INTO user_api_keys (api_key, description): AUTOINCREMENT gives the
\* row the id after the largest one ever assigned, created_at defaults to
\* CURRENT_TIMESTAMP and is_active to 1
InsertKey(rows, seq, api_key, description, now) ==
    Append(rows, [id |-> seq + 1, api_key |-> api_key, description |-> description,
                  created_at |-> now, is_active |-> TRUE])

\* DELETE FROM user_api_keys WHERE api_key = ?
DeleteKey(rows, api_key) == SelectSeq(rows, LAMBDA r : r.api_key # api_key)

\* UPDATE user_api_keys SET is_active = ? WHERE id = ?
SetActive(rows, id, value) ==
    [i \in DOMAIN rows |-> IF rows[i].id = id THEN [rows[i] EXCEPT !.is_active = value] ELSE rows[i]]

\* cursor.rowcount > 0 after the UPDATE: a row has the id
Updated(rows, id) == \E i \in DOMAIN rows : rows[i].id = id

\* cursor.rowcount > 0 after a DELETE
Deleted(before, after) == Len(after) < Len(before)

\* a scan that returns the newest row first
SelectBackendsNewestFirst(rows) == [i \in DOMAIN rows |-> rows[Len(rows) + 1 - i]]

\* the (provider, url) pairs in the order of the UNIQUE(provider, url) index
IndexOrder == << <<"A", "u1">>, <<"A", "u2">>, <<"B", "u1">>, <<"B", "u2">> >>

\* SELECT provider, url FROM backends answered by a scan of the index
SelectBackendsByIndex(rows) ==
    SelectSeq(IndexOrder, LAMBDA r : \E i \in DOMAIN rows : rows[i] = r)

\* SELECT provider, url FROM backends: a scan of the table in rowid order
SelectBackends(rows) == rows

\* SELECT model_name, provider FROM model_mappings: a scan in rowid order
SelectMappings(rows) == rows

(* ----------------------------------------------- update_openai_router *)
\* backends[provider].append(url) over the rows: the URLs of p, in row order
UrlsOf(backend_rows, p) ==
    LET mine == SelectSeq(backend_rows, LAMBDA r : r[1] = p)
    IN  [i \in DOMAIN mine |-> mine[i][2]]

RECURSIVE ModelBackendsFrom(_, _, _)
\* the loop over mapping_rows [k..], starting from dict acc
ModelBackendsFrom(backend_rows, mapping_rows, acc) ==
    IF mapping_rows = <<>>
    THEN acc
    ELSE LET row == Head(mapping_rows)
             urls == UrlsOf(backend_rows, row[2])
         IN  ModelBackendsFrom(backend_rows, Tail(mapping_rows),
                 IF urls # <<>> THEN DictPut(acc, row[1], urls[1]) ELSE acc)

\* model_backends as update_openai_router computes it from the two row lists
ModelBackends(backend_rows, mapping_rows) ==
    ModelBackendsFrom(backend_rows, mapping_rows, EmptyDict)

(* ------------------------------------------------ module and processes *)
\* one registered_models dict reached from both processes
SharedModule(p) == AdminProc

\* start_server launches sopy.admin_socket and uvicorn sopy.main:app as two
\* processes; the module a process imports lives in that process alone
ModuleOf(p) == p

NoTask == <<"none", 0>>
BootTask == <<"boot", 0>>
ConnTask(c) == <<"conn", c>>
HarnessTask == <<"harness", 0>>

Absent == "-"
NoCommand == [command |-> Absent, provider |-> Absent, url |-> Absent, model_name |-> Absent]
NoResponse == [status |-> Absent, message |-> Absent]
NoPre == [backends |-> <<>>, model_mappings |-> <<>>, table |-> EmptyDict,
          admin_credentials |-> <<>>, user_api_keys |-> <<>>, key_seq |-> 0, locked |-> FALSE]

\* no record of how the bytes of the envelope arrived
NoWire == [command |-> NoCommand, head |-> 0, wide |-> 0, tail |-> 0, space |-> 0, first |-> 0]

AddBackendCmd(p, u) == [command |-> "add_backend", provider |-> p, url |-> u, model_name |-> Absent]
RemoveBackendCmd(p, u) == [command |-> "remove_backend", provider |-> p, url |-> u, model_name |-> Absent]
AddMappingCmd(m, p) == [command |-> "add_model_mapping", provider |-> p, url |-> Absent, model_name |-> m]
RemoveMappingCmd(m) == [command |-> "remove_model_mapping", provider |-> Absent, url |-> Absent, model_name |-> m]

\* the envelopes a client sends on the admin channel
MutatingCommands ==
    {AddBackendCmd(p, u) : p \in Providers, u \in Urls}
        \cup {RemoveBackendCmd(p, u) : p \in Providers, u \in Urls}
        \cup {AddMappingCmd(m, p) : m \in Models, p \in Providers}
        \cup {RemoveMappingCmd(m) : m \in Models}

Commands == MutatingCommands

AddAdminAuthCmd(n, cr) == [command |-> "add_admin_auth", name |-> n, credentials |-> cr]
RemoveAdminAuthCmd(n) == [command |-> "remove_admin_auth", name |-> n]
ListAdminAuthCmd == [command |-> "list_admin_auth"]
GetAdminAuthCmd(n) == [command |-> "get_admin_auth", name |-> n]
AddUserApiKeyCmd(k) == [command |-> "add_user_api_key", api_key |-> k]
AddUserApiKeyDescCmd(k, d) == [command |-> "add_user_api_key", api_key |-> k, description |-> d]
RemoveUserApiKeyCmd(k) == [command |-> "remove_user_api_key", api_key |-> k]
ListUserApiKeysCmd == [command |-> "list_user_api_keys"]
GetUserApiKeyCmd(i) == [command |-> "get_user_api_key", id |-> i]
ActivateUserApiKeyCmd(i) == [command |-> "activate_user_api_key", id |-> i]
DeactivateUserApiKeyCmd(i) == [command |-> "deactivate_user_api_key", id |-> i]
ListBackendsCmd == [command |-> "list_backends"]
GetBackendCmd(p) == [command |-> "get_backend", provider |-> p]
ListModelMappingsCmd == [command |-> "list_model_mappings"]
GetModelMappingCmd(m) == [command |-> "get_model_mapping", model_name |-> m]

\* the user API key commands
KeyCommands ==
    {AddUserApiKeyCmd(k) : k \in ApiKeys}
        \cup {AddUserApiKeyDescCmd(k, d) : k \in ApiKeys, d \in Descriptions}
        \cup {RemoveUserApiKeyCmd(k) : k \in ApiKeys}
        \cup {ListUserApiKeysCmd}
        \cup {GetUserApiKeyCmd(i) : i \in KeyIds}
        \cup {ActivateUserApiKeyCmd(i) : i \in KeyIds}
        \cup {DeactivateUserApiKeyCmd(i) : i \in KeyIds}

\* the add and remove commands of the four record kinds
AddRemoveCommands ==
    {AddAdminAuthCmd(n, "c1") : n \in Names}
        \cup {RemoveAdminAuthCmd(n) : n \in Names}
        \cup {AddUserApiKeyCmd(k) : k \in ApiKeys}
        \cup {RemoveUserApiKeyCmd(k) : k \in ApiKeys}
        \cup {AddBackendCmd("A", u) : u \in Urls}
        \cup {RemoveBackendCmd("A", u) : u \in Urls}
        \cup {AddMappingCmd(m, "A") : m \in Models}
        \cup {RemoveMappingCmd(m) : m \in Models}

\* one well-formed envelope of every command of the catalog, and a second
\* one where the answer depends on the record addressed
CatalogCommands ==
    {AddAdminAuthCmd("n1", "c1"), RemoveAdminAuthCmd("n1"), ListAdminAuthCmd, GetAdminAuthCmd("n1"),
     AddUserApiKeyCmd("k1"), RemoveUserApiKeyCmd("k1"), ListUserApiKeysCmd,
     GetUserApiKeyCmd(1), ActivateUserApiKeyCmd(1), DeactivateUserApiKeyCmd(1),
     AddBackendCmd("A", "u1"), RemoveBackendCmd("A", "u1"), ListBackendsCmd, GetBackendCmd("A"),
     AddMappingCmd("m1", "A"), RemoveMappingCmd("m1"), ListModelMappingsCmd, GetModelMappingCmd("m1")}

\* the JSON object `command` without the keys in `fields`
Without(command, fields) == [k \in DOMAIN command \ fields |-> command[k]]

\* the fields the catalog requires of each command
CatalogFields(cmd_type) ==
    CASE cmd_type = "add_admin_auth" -> {"name", "credentials"}
      [] cmd_type \in {"remove_admin_auth", "get_admin_auth"} -> {"name"}
      [] cmd_type \in {"add_user_api_key", "remove_user_api_key"} -> {"api_key"}
      [] cmd_type \in {"get_user_api_key", "activate_user_api_key", "deactivate_user_api_key"} -> {"id"}
      [] cmd_type \in {"add_backend", "remove_backend"} -> {"provider", "url"}
      [] cmd_type = "get_backend" -> {"provider"}
      [] cmd_type = "add_model_mapping" -> {"model_name", "provider"}
      [] cmd_type \in {"remove_model_mapping", "get_model_mapping"} -> {"model_name"}
      [] OTHER -> {}

\* envelopes that lack one or more of the fields their command requires
IncompleteCommands ==
    UNION {{Without(cmd, fields) : fields \in SUBSET CatalogFields(cmd.command) \ {{}}} :
               cmd \in CatalogCommands}

\* envelopes whose command is missing or is no name of the catalog
UnknownCommands == {[command |-> "add_auth", name |-> "n1"], [name |-> "n1"]}


Success(msg) == [status |-> "success", message |-> msg]
Error(msg) == [status |-> "error", message |-> msg]

IdleRb == [phase |-> "idle", caller |-> NoTask, model_backends |-> EmptyDict, todo |-> EmptyDict]

\* a connection slot with no open connection
ClosedConn == [pc |-> "Closed", command |-> NoCommand, response |-> NoResponse,
               rebuilds |-> 0, pre |-> NoPre, wire |-> NoWire]

\* seen is the table the request read; whole records whether that table was
\* one an update had left complete, and mid whether some update of a
\* registered_models dict was between its clear() and its return at that read
IdleReq == [pc |-> "idle", kind |-> Absent, model |-> Absent, status |-> 0,
            detail |-> <<>>, url |-> Absent, outbound |-> 0, body |-> Absent,
            listing |-> <<>>, seen |-> EmptyDict, whole |-> TRUE, mid |-> FALSE]

Init ==
    /\ admin_credentials = <<>>
    /\ user_api_keys = <<>>
    /\ key_seq = 0
    /\ locked = FALSE
    /\ issued = {}
    /\ backends = <<>>
    /\ model_mappings = <<>>
    /\ registered_models = [p \in Procs |-> EmptyDict]
    /\ complete = [p \in Procs |-> EmptyDict]
    /\ running = [p \in Procs |-> NoTask]
    /\ boot = "scheduled"
    /\ conn = [c \in Conns |-> ClosedConn]
    /\ rb = [p \in Procs |-> IdleRb]
    /\ req = [r \in Reqs |-> IdleReq]

(* ----------------------------------------------- the commands' handlers *)
\* the rows of backends after the handler's statement and commit
BackendsAfter(cmd, rows) ==
    CASE cmd.command = "add_backend" -> InsertOrIgnoreBackend(rows, cmd.provider, cmd.url)
      [] cmd.command = "remove_backend" -> DeleteBackend(rows, cmd.provider, cmd.url)
      [] OTHER -> rows

\* the rows of model_mappings after the handler's statement and commit
MappingsAfter(cmd, rows) ==
    CASE cmd.command = "add_model_mapping" -> InsertOrReplaceMapping(rows, cmd.model_name, cmd.provider)
      [] cmd.command = "remove_model_mapping" -> DeleteMapping(rows, cmd.model_name)
      [] OTHER -> rows

\* handlers that rebuild only after a DELETE that removed a row
NeedsRebuildOnlyAfterDelete(cmd, deleted) == deleted

\* handlers that rebuild whatever the statement did
NeedsRebuildAlways(cmd, deleted) == TRUE

\* whether the handler awaits update_openai_router(): the add handlers always,
\* the remove handlers under `if deleted`
NeedsRebuild(cmd, deleted) ==
    CASE cmd.command \in {"add_backend", "add_model_mapping"} -> TRUE
      [] cmd.command \in {"remove_backend", "remove_model_mapping"} -> deleted
      [] OTHER -> FALSE

\* the handler's return value once its rebuild (if any) is over
SuccessOf(cmd) ==
    CASE cmd.command = "add_backend" ->
            Success("Backend URL for '" \o cmd.provider \o "' added successfully")
      [] cmd.command = "remove_backend" ->
            Success("Backend URL for '" \o cmd.provider \o "' removed")
      [] cmd.command = "add_model_mapping" ->
            Success("Model '" \o cmd.model_name \o "' mapped to provider '"
                        \o cmd.provider \o "' successfully")
      [] cmd.command = "remove_model_mapping" ->
            Success("Model mapping for '" \o cmd.model_name \o "' removed")
      [] OTHER -> Error("Unknown command")

\* the handler's return value when its DELETE removed no row
NotFoundOf(cmd) ==
    CASE cmd.command = "remove_backend" ->
            Error("No backend URL found for '" \o cmd.provider \o "'")
      [] cmd.command = "remove_model_mapping" ->
            Error("No model mapping found for '" \o cmd.model_name \o "'")
      [] OTHER -> Error("Unknown command")

\* the return value of a handler that does not await update_openai_router()
ReturnWithoutRebuild(cmd, deleted) ==
    IF cmd.command \in {"remove_backend", "remove_model_mapping"} /\ ~deleted
    THEN NotFoundOf(cmd)
    ELSE SuccessOf(cmd)

(* ------------------------------------------- envelopes, process_command *)
\* the names process_command dispatches on
CommandCatalog ==
    {"add_admin_auth", "remove_admin_auth", "list_admin_auth", "get_admin_auth",
     "add_user_api_key", "remove_user_api_key", "list_user_api_keys", "get_user_api_key",
     "activate_user_api_key", "deactivate_user_api_key",
     "add_backend", "remove_backend", "list_backends", "get_backend",
     "add_model_mapping", "remove_model_mapping", "list_model_mappings", "get_model_mapping"}

\* what reader.read(1024) can return besides a JSON object: bytes json.loads
\* rejects, and a JSON document that is a list.  A JSON object is a record
\* whose fields are the keys of the object.
NotJson == [raw |-> "not json"]
JsonArray == [raw |-> "[1, 2]"]

\* a parser that accepts any bytes
ParsesAnything(data) == TRUE

(* ------------------------------------------- admin: the bytes of an envelope *)
\* the n of `await reader.read(n)` in handle_client
ReadSize == 1024

\* An envelope as the client writes it to the socket.  The text of the JSON
\* object `command` is `head` ASCII bytes, then `wide` characters of two bytes
\* each (inside a string value), then `tail` ASCII bytes, the last of which is
\* the closing brace; `space` bytes of JSON whitespace follow the object.
\* `first` of these bytes are in the stream's buffer when the handler's read
\* returns.
Wire(command, head, wide, tail, space, first) ==
    [command |-> command, head |-> head, wide |-> wide, tail |-> tail,
     space |-> space, first |-> first]

\* the bytes of the JSON object, and of the whole envelope
ObjectLen(w) == w.head + 2 * w.wide + w.tail
WireLen(w) == ObjectLen(w) + w.space

\* data = await reader.read(1024): the number of bytes in data, which is
\* what has arrived, up to 1024 bytes
reader_read(w) == IF w.first < ReadSize THEN w.first ELSE ReadSize

\* the first n bytes of w end between the two bytes of a character
EndsInsideCharacter(w, n) ==
    /\ n > w.head
    /\ n < w.head + 2 * w.wide
    /\ (n - w.head) % 2 = 1

\* bytes that bytes.decode() rejects: the lead byte at `position` is the last one
Undecodable(position) == [raw |-> "undecodable", position |-> position]

\* the bytes a read of n bytes of w hands to data.decode() and json.loads:
\* the object, with or without whitespace behind it, is the object; a
\* proper prefix of the object's text is no JSON document
Prefix(w, n) ==
    IF EndsInsideCharacter(w, n) THEN Undecodable(n - 1)
    ELSE IF n >= ObjectLen(w) THEN w.command
    ELSE NotJson

\* data.decode() returns
Decodes(data) == ~("raw" \in DOMAIN data /\ data.raw = "undecodable")

\* str(e) of the UnicodeDecodeError of data.decode()
StrOfUnicodeDecodeError(data) ==
    "'utf-8' codec can't decode byte 0xc3 in position " \o ToString(data.position)
        \o ": unexpected end of data"

\* json.loads(data.decode()) returns
IsJson(data) == ~("raw" \in DOMAIN data /\ data.raw = "not json")

\* the value json.loads returned is a dict
IsObject(data) == "raw" \notin DOMAIN data

\* `f in command`
HasField(command, f) == f \in DOMAIN command

\* cmd_type = command.get("command"); a missing key gives None, printed "None"
CmdType(command) == IF HasField(command, "command") THEN command.command ELSE "None"

\* the fields a handler reads with command[...], in the order it reads them
RequiredFields(cmd_type) ==
    CASE cmd_type = "add_admin_auth" -> <<"name", "credentials">>
      [] cmd_type \in {"remove_admin_auth", "get_admin_auth"} -> <<"name">>
      [] cmd_type = "remove_user_api_key" -> <<"api_key">>
      [] cmd_type \in {"get_user_api_key", "activate_user_api_key", "deactivate_user_api_key"} -> <<"id">>
      [] cmd_type \in {"add_backend", "remove_backend"} -> <<"provider", "url">>
      [] cmd_type = "get_backend" -> <<"provider">>
      [] cmd_type = "add_model_mapping" -> <<"model_name", "provider">>
      [] cmd_type \in {"remove_model_mapping", "get_model_mapping"} -> <<"model_name">>
      [] OTHER -> <<>>

\* the required fields the envelope lacks, in reading order
MissingFields(command) ==
    SelectSeq(RequiredFields(CmdType(command)), LAMBDA f : ~HasField(command, f))

\* except KeyError as e: str(e) is the repr of the first key that was missing
KeyErrorOf(command) ==
    Error("Missing required field: '" \o Head(MissingFields(command)) \o "'")

\* api_key = command.get("api_key"); `not api_key` for None and for ""
ApiKeyFalsy(command) == ~HasField(command, "api_key") \/ command.api_key = ""

\* description = command.get("description", "")
DescriptionOf(command) == IF HasField(command, "description") THEN command.description ELSE ""

\* the handlers whose statement is an INSERT, an UPDATE or a DELETE
WritingCommands ==
    {"add_admin_auth", "remove_admin_auth", "add_user_api_key", "remove_user_api_key",
     "activate_user_api_key", "deactivate_user_api_key",
     "add_backend", "remove_backend", "add_model_mapping", "remove_model_mapping"}

\* a response that carries data instead of a message
SuccessWith(payload) == [status |-> "success", payload |-> payload]

\* a handler that awaits update_openai_router() before every return
ReturnAfterRebuild(db, response) == [db |-> db, rebuild |-> TRUE, response |-> response]

\* the handler returned without awaiting update_openai_router()
Return(db, response) == [db |-> db, rebuild |-> FALSE, response |-> response]

\* the order of the text values in an index
NameOrder == <<"n1", "n2">>
UrlOrder == <<"u1", "u2">>

\* SELECT name FROM admin_credentials: answered from the index of the primary key
SelectNames(rows) == SelectSeq(NameOrder, LAMBDA n : \E i \in DOMAIN rows : rows[i][1] = n)

\* SELECT url FROM backends WHERE provider = ?: answered from the index of
\* UNIQUE(provider, url)
SelectUrlsOfProvider(rows, p) == SelectSeq(UrlOrder, LAMBDA u : HasRow(rows, <<p, u>>))

RECURSIVE BackendsByProvider(_, _)
\* list_backends: backends[provider].append(url) over the rows, from dict acc
BackendsByProvider(rows, acc) ==
    IF rows = <<>> THEN acc
    ELSE LET p == Head(rows)[1]
             old == IF HasKey(acc, p) THEN Get(acc, p) ELSE <<>>
         IN  BackendsByProvider(Tail(rows), DictPut(acc, p, Append(old, Head(rows)[2])))

\* sqlite3.OperationalError of a statement that cannot take the write lock
DatabaseLocked(db) == Return(db, Error("Database error: database is locked"))

\* add_admin_auth if it refreshed the route table after its commit
add_admin_auth_refreshing(command, db) ==
    ReturnAfterRebuild([db EXCEPT !.admin_credentials =
                InsertOrReplaceCredential(db.admin_credentials, command.name, command.credentials)],
           Success("Authentication credentials for '" \o command.name \o "' added successfully"))

add_admin_auth(command, db) ==
    Return([db EXCEPT !.admin_credentials =
                InsertOrReplaceCredential(db.admin_credentials, command.name, command.credentials)],
           Success("Authentication credentials for '" \o command.name \o "' added successfully"))

remove_admin_auth(command, db) ==
    LET after == DeleteCredential(db.admin_credentials, command.name)
    IN  Return([db EXCEPT !.admin_credentials = after],
               IF Deleted(db.admin_credentials, after)
               THEN Success("Authentication credentials for '" \o command.name \o "' removed")
               ELSE Error("No credentials found for '" \o command.name \o "'"))

list_admin_auth(command, db) == Return(db, SuccessWith(SelectNames(db.admin_credentials)))

get_admin_auth(command, db) ==
    LET rows == SelectSeq(db.admin_credentials, LAMBDA r : r[1] = command.name)
    IN  Return(db, IF rows # <<>>
                   THEN SuccessWith(<<command.name, rows[1][2]>>)
                   ELSE Error("No credentials found for '" \o command.name \o "'"))

\* the IntegrityError of a stored api_key is caught after sqlite3.connect and
\* before conn.close(): the connection stays open, inside the transaction
\* its INSERT began, until the garbage collector finds it
add_user_api_key(command, db, now) ==
    IF ApiKeyFalsy(command) THEN Return(db, Error("API key is required"))
    ELSE IF db.locked THEN DatabaseLocked(db)
    ELSE IF KeyExists(db.user_api_keys, command.api_key)
         THEN Return([db EXCEPT !.locked = TRUE], Error("API key already exists"))
         ELSE Return([db EXCEPT !.user_api_keys =
                          InsertKey(db.user_api_keys, db.key_seq, command.api_key,
                                    DescriptionOf(command), now),
                                !.key_seq = db.key_seq + 1],
                     Success("User API key added successfully"))

remove_user_api_key(command, db) ==
    LET after == DeleteKey(db.user_api_keys, command.api_key)
    IN  Return([db EXCEPT !.user_api_keys = after],
               IF Deleted(db.user_api_keys, after)
               THEN Success("User API key removed")
               ELSE Error("No user API key found"))

list_user_api_keys(command, db) == Return(db, SuccessWith(db.user_api_keys))

get_user_api_key(command, db) ==
    LET rows == SelectSeq(db.user_api_keys, LAMBDA r : r.id = command.id)
    IN  Return(db, IF rows # <<>>
                   THEN SuccessWith(rows[1])
                   ELSE Error("No user API key found with ID " \o ToString(command.id)))

activate_user_api_key(command, db) ==
    Return([db EXCEPT !.user_api_keys = SetActive(db.user_api_keys, command.id, TRUE)],
           IF Updated(db.user_api_keys, command.id)
           THEN Success("User API key activated")
           ELSE Error("No user API key found with ID " \o ToString(command.id)))

deactivate_user_api_key(command, db) ==
    Return([db EXCEPT !.user_api_keys = SetActive(db.user_api_keys, command.id, FALSE)],
           IF Updated(db.user_api_keys, command.id)
           THEN Success("User API key deactivated")
           ELSE Error("No user API key found with ID " \o ToString(command.id)))

\* list_backends if it refreshed the route table before answering
list_backends_refreshing(command, db) ==
    ReturnAfterRebuild(db, SuccessWith(BackendsByProvider(db.backends, EmptyDict)))

\* add_backend, remove_backend, add_model_mapping, remove_model_mapping: the
\* statement and commit, then update_openai_router() or the NotFound response
RoutingMutator(command, db) ==
    LET newB == BackendsAfter(command, db.backends)
        newM == MappingsAfter(command, db.model_mappings)
        deleted == Deleted(db.backends, newB) \/ Deleted(db.model_mappings, newM)
    IN  [db |-> [db EXCEPT !.backends = newB, !.model_mappings = newM],
         rebuild |-> NeedsRebuild(command, deleted),
         response |-> ReturnWithoutRebuild(command, deleted)]

list_backends(command, db) ==
    Return(db, SuccessWith(BackendsByProvider(db.backends, EmptyDict)))

get_backend(command, db) ==
    LET urls == SelectUrlsOfProvider(db.backends, command.provider)
    IN  Return(db, IF urls # <<>>
                   THEN SuccessWith(<<command.provider, urls>>)
                   ELSE Error("No backends found for '" \o command.provider \o "'"))

list_model_mappings(command, db) == Return(db, SuccessWith(db.model_mappings))

get_model_mapping(command, db) ==
    LET rows == SelectSeq(db.model_mappings, LAMBDA r : r[1] = command.model_name)
    IN  Return(db, IF rows # <<>>
                   THEN SuccessWith(<<command.model_name, rows[1][2]>>)
                   ELSE Error("No mapping found for model '" \o command.model_name \o "'"))

\* process_command: the if/elif chain on cmd_type.  Each handler reads its
\* required fields before it opens the database (KeyError), and a writing
\* handler's statement needs the write lock.
process_command(command, db, now) ==
    LET cmd_type == CmdType(command)
    IN  IF cmd_type \notin CommandCatalog
        THEN Return(db, Error("Unknown command: " \o cmd_type))
        ELSE IF cmd_type = "add_user_api_key" THEN add_user_api_key(command, db, now)
        ELSE IF MissingFields(command) # <<>> THEN Return(db, KeyErrorOf(command))
        ELSE IF cmd_type \in WritingCommands /\ db.locked THEN DatabaseLocked(db)
        ELSE CASE cmd_type = "add_admin_auth" -> add_admin_auth(command, db)
               [] cmd_type = "remove_admin_auth" -> remove_admin_auth(command, db)
               [] cmd_type = "list_admin_auth" -> list_admin_auth(command, db)
               [] cmd_type = "get_admin_auth" -> get_admin_auth(command, db)
               [] cmd_type = "remove_user_api_key" -> remove_user_api_key(command, db)
               [] cmd_type = "list_user_api_keys" -> list_user_api_keys(command, db)
               [] cmd_type = "get_user_api_key" -> get_user_api_key(command, db)
               [] cmd_type = "activate_user_api_key" -> activate_user_api_key(command, db)
               [] cmd_type = "deactivate_user_api_key" -> deactivate_user_api_key(command, db)
               [] cmd_type = "list_backends" -> list_backends(command, db)
               [] cmd_type = "get_backend" -> get_backend(command, db)
               [] cmd_type = "list_model_mappings" -> list_model_mappings(command, db)
               [] cmd_type = "get_model_mapping" -> get_model_mapping(command, db)
               [] OTHER -> RoutingMutator(command, db)

\* handle_client from the return of reader.read(1024) to the response or to
\* the await of update_openai_router(): data.decode() raises
\* UnicodeDecodeError, which `except json.JSONDecodeError` does not catch and
\* the outer `except Exception` turns into a response; json.loads raises
\* JSONDecodeError ("Invalid JSON"); a JSON value that is no dict makes
\* command.get raise AttributeError, which the outer `except Exception`
\* turns into a response
handle_data(data, db, now) ==
    IF ~Decodes(data) THEN Return(db, Error(StrOfUnicodeDecodeError(data)))
    ELSE IF ~IsJson(data) THEN Return(db, Error("Invalid JSON"))
    ELSE IF ~IsObject(data) THEN Return(db, Error("'list' object has no attribute 'get'"))
    ELSE process_command(data, db, now)

\* an event loop that runs a task while another one is between its awaits
LoopShared(p) == TRUE

(* -------------------------------------------------- event-loop scheduling *)
\* a task of process p may start a step when no task holds the loop of p
LoopFree(p) == running[p] = NoTask

\* some update of a registered_models dict is between its clear() and its return
RebuildInProgress == \E p \in Procs : rb[p].phase = "register"

(* ------------------------------------------------- admin: start-up, accept *)
\* init_database: asyncio.create_task(self.update_openai_router()); the task
\* runs at the first suspension of main(), before the server serves a connection
BootRebuild ==
    /\ boot = "scheduled"
    /\ LoopFree(AdminProc)
    /\ running' = [running EXCEPT ![AdminProc] = BootTask]
    /\ rb' = [rb EXCEPT ![AdminProc] = [IdleRb EXCEPT !.phase = "read", !.caller = BootTask]]
    /\ UNCHANGED <<authVars, backends, model_mappings, registered_models, complete, boot, conn, req>>

\* asyncio.start_unix_server(self.handle_client): a client connects
Accept(c) ==
    /\ boot = "serving"
    /\ conn[c].pc = "Closed"
    /\ conn' = [conn EXCEPT ![c] = [ClosedConn EXCEPT !.pc = "AwaitingCommand"]]
    /\ UNCHANGED <<authVars, backends, model_mappings, registered_models, complete, running, boot, rb, req>>

(* ------------------------------------------------- admin: handle_client *)
\* data = await reader.read(1024) returns `cmd`; json.loads; process_command;
\* the handler runs its statement and commits, then either awaits
\* update_openai_router() or has its response; `wire` records the bytes the
\* client wrote
HandleRead(c, cmd, now, wire) ==
    /\ boot = "serving"
    /\ conn[c].pc = "AwaitingCommand"
    /\ LoopFree(AdminProc)
    /\ LET db == [admin_credentials |-> admin_credentials, user_api_keys |-> user_api_keys,
                  key_seq |-> key_seq, locked |-> locked,
                  backends |-> backends, model_mappings |-> model_mappings]
           out == handle_data(cmd, db, now)
           pre == [backends |-> backends, model_mappings |-> model_mappings,
                   table |-> registered_models[ModuleOf(AdminProc)],
                   admin_credentials |-> admin_credentials, user_api_keys |-> user_api_keys,
                   key_seq |-> key_seq, locked |-> locked]
       IN  /\ Len(out.db.backends) <= MaxBackendRows
           /\ out.db.key_seq <= MaxKeyId
           /\ admin_credentials' = out.db.admin_credentials
           /\ user_api_keys' = out.db.user_api_keys
           /\ key_seq' = out.db.key_seq
           /\ locked' = out.db.locked
           /\ issued' = issued \cup {out.db.user_api_keys[i].id : i \in DOMAIN out.db.user_api_keys}
           /\ backends' = out.db.backends
           /\ model_mappings' = out.db.model_mappings
           /\ running' = [running EXCEPT ![AdminProc] = ConnTask(c)]
           /\ IF out.rebuild
              THEN /\ conn' = [conn EXCEPT ![c] = [pc |-> "Processing", command |-> cmd,
                                  response |-> NoResponse, rebuilds |-> 0, pre |-> pre,
                                  wire |-> wire]]
                   /\ rb' = [rb EXCEPT ![AdminProc] =
                                  [IdleRb EXCEPT !.phase = "read", !.caller = ConnTask(c)]]
              ELSE /\ conn' = [conn EXCEPT ![c] = [pc |-> "Processed", command |-> cmd,
                                  response |-> out.response,
                                  rebuilds |-> 0, pre |-> pre, wire |-> wire]]
                   /\ rb' = rb
    /\ UNCHANGED <<registered_models, complete, boot, req>>

\* handle_client when the envelope arrives whole and the read returns all of it
Handle(c, cmd, now) == HandleRead(c, cmd, now, NoWire)

\* handle_client when the client wrote the bytes w: the handler works on what
\* its one read returns
Receive(c, w, now) == HandleRead(c, Prefix(w, reader_read(w)), now, w)

\* the garbage collector closes a connection that a handler left open: its
\* transaction is rolled back and the write lock is released
Collect ==
    /\ locked
    /\ locked' = FALSE
    /\ UNCHANGED <<admin_credentials, user_api_keys, key_seq, issued,
                   backends, model_mappings, registered_models, complete, running, boot, conn, rb, req>>

\* reader.read(1024) returns b"" (the client closed without sending):
\* `if not data: return`, and the finally clause closes the writer; nothing
\* is written
EmptyRead(c) ==
    /\ boot = "serving"
    /\ conn[c].pc = "AwaitingCommand"
    /\ LoopFree(AdminProc)
    /\ conn' = [conn EXCEPT ![c] = ClosedConn]
    /\ UNCHANGED <<authVars, backends, model_mappings, registered_models, complete, running, boot, rb, req>>

\* a handler loop that writes the response and reads the next command from
\* the same connection
SendAndReadAgain(c) ==
    /\ conn[c].pc = "Processed"
    /\ running[AdminProc] = ConnTask(c)
    /\ conn' = [conn EXCEPT ![c] = [ClosedConn EXCEPT !.pc = "AwaitingCommand"]]
    /\ running' = [running EXCEPT ![AdminProc] = NoTask]
    /\ UNCHANGED <<authVars, backends, model_mappings, registered_models, complete, boot, rb, req>>

\* writer.write(json.dumps(response)); await writer.drain(): the loop is released
Send(c) ==
    /\ conn[c].pc = "Processed"
    /\ running[AdminProc] = ConnTask(c)
    /\ conn' = [conn EXCEPT ![c] = [ClosedConn EXCEPT !.pc = "Responding"]]
    /\ running' = [running EXCEPT ![AdminProc] = NoTask]
    /\ UNCHANGED <<authVars, backends, model_mappings, registered_models, complete, boot, rb, req>>

\* finally: writer.close(); await writer.wait_closed()
Close(c) ==
    /\ conn[c].pc = "Responding"
    /\ conn' = [conn EXCEPT ![c] = ClosedConn]
    /\ UNCHANGED <<authVars, backends, model_mappings, registered_models, complete, running, boot, rb, req>>

(* ------------------- update_openai_router and update_registered_models *)
\* a rebuild that reads the rows as they were before its caller's commit
StoreSeenBeforeCommit(p) ==
    IF \E c \in Conns : rb[p].caller = ConnTask(c)
    THEN LET c == CHOOSE c \in Conns : rb[p].caller = ConnTask(c)
         IN  [backends |-> conn[c].pre.backends, model_mappings |-> conn[c].pre.model_mappings]
    ELSE [backends |-> backends, model_mappings |-> model_mappings]

\* sqlite3.connect(self.db_path) in update_openai_router: a new connection,
\* opened after the caller's conn.commit(), sees every committed row
StoreSeen(p) == [backends |-> backends, model_mappings |-> model_mappings]

\* a rebuild that also deletes the mappings whose provider has no backend
RebuildReadPruning(p) ==
    /\ rb[p].phase = "read"
    /\ rb' = [rb EXCEPT ![p].phase = "clear",
                        ![p].model_backends =
                            ModelBackends(SelectBackends(StoreSeen(p).backends),
                                          SelectMappings(StoreSeen(p).model_mappings))]
    /\ model_mappings' = SelectSeq(model_mappings, LAMBDA r : UrlsOf(backends, r[2]) # <<>>)
    /\ UNCHANGED <<authVars, backends, registered_models, complete, running, boot, conn, req>>

\* the two SELECTs and the two loops that build model_backends
RebuildRead(p) ==
    /\ rb[p].phase = "read"
    /\ rb' = [rb EXCEPT ![p].phase = "clear",
                        ![p].model_backends =
                            ModelBackends(SelectBackends(StoreSeen(p).backends),
                                          SelectMappings(StoreSeen(p).model_mappings))]
    /\ UNCHANGED <<authVars, backends, model_mappings, registered_models, complete, running, boot, conn, req>>

\* the update of process p wrote `table` and has the entries `todo` left to
\* register: with none left, update_registered_models prints and returns,
\* update_openai_router returns, and the caller goes on: the handler has its
\* success response, or the start-up task ends
LoopOrReturn(p, table, todo) ==
    /\ registered_models' = [registered_models EXCEPT ![ModuleOf(p)] = table]
    /\ IF todo # <<>>
       THEN /\ rb' = [rb EXCEPT ![p].phase = "register", ![p].todo = todo]
            /\ UNCHANGED <<complete, boot, running, conn>>
       ELSE /\ rb' = [rb EXCEPT ![p] = IdleRb]
            /\ complete' = [complete EXCEPT ![ModuleOf(p)] = table]
            /\ IF rb[p].caller \in {BootTask, HarnessTask}
               THEN /\ boot' = IF rb[p].caller = BootTask THEN "serving" ELSE boot
                    /\ running' = [running EXCEPT ![p] = NoTask]
                    /\ conn' = conn
               ELSE /\ \E c \in Conns :
                         /\ rb[p].caller = ConnTask(c)
                         /\ conn' = [conn EXCEPT ![c].pc = "Processed",
                                                 ![c].rebuilds = conn[c].rebuilds + 1,
                                                 ![c].response = SuccessOf(conn[c].command)]
                    /\ UNCHANGED <<boot, running>>

\* update_registered_models: registered_models.clear()
RebuildClear(p) ==
    /\ rb[p].phase = "clear"
    /\ LoopOrReturn(p, EmptyDict, rb[p].model_backends)
    /\ UNCHANGED <<authVars, backends, model_mappings, req>>

\* one turn of `for model_name, backend_url in model_backends.items():
\* register_model(model_name, backend_url)`
RebuildRegister(p) ==
    /\ rb[p].phase = "register"
    /\ LET e == Head(rb[p].todo)
       IN  LoopOrReturn(p, DictPut(registered_models[ModuleOf(p)], e[1], e[2]), Tail(rb[p].todo))
    /\ UNCHANGED <<authVars, backends, model_mappings, req>>

(* ------------------------------------------------------ process restart *)
\* the admin process started anew with init_database not scheduling
\* update_openai_router
RestartWithoutRebuild ==
    /\ registered_models' = [registered_models EXCEPT ![ModuleOf(AdminProc)] = EmptyDict]
    /\ complete' = [complete EXCEPT ![ModuleOf(AdminProc)] = EmptyDict]
    /\ running' = [running EXCEPT ![AdminProc] = NoTask]
    /\ boot' = "serving"
    /\ conn' = [c \in Conns |-> ClosedConn]
    /\ rb' = [rb EXCEPT ![AdminProc] = IdleRb]
    /\ locked' = FALSE
    /\ UNCHANGED <<admin_credentials, user_api_keys, key_seq, issued, backends, model_mappings, req>>

\* the admin process ends and `python -m sopy.admin_socket` runs again: the
\* module openai_router is imported anew (registered_models = {}), every
\* task, connection and sqlite connection of the old process is gone,
\* sopy_admin.db keeps its committed rows (CREATE TABLE IF NOT EXISTS), and
\* init_database schedules update_openai_router()
Restart ==
    /\ registered_models' = [registered_models EXCEPT ![ModuleOf(AdminProc)] = EmptyDict]
    /\ complete' = [complete EXCEPT ![ModuleOf(AdminProc)] = EmptyDict]
    /\ running' = [running EXCEPT ![AdminProc] = NoTask]
    /\ boot' = "scheduled"
    /\ conn' = [c \in Conns |-> ClosedConn]
    /\ rb' = [rb EXCEPT ![AdminProc] = IdleRb]
    /\ locked' = FALSE
    /\ UNCHANGED <<admin_credentials, user_api_keys, key_seq, issued, backends, model_mappings, req>>

(* ------------------------------------------------ storage-engine errors *)
\* texts of sqlite3 exceptions that are no constraint violation
StoreErrors == {"disk I/O error", "unable to open database file"}

\* a handler whose sqlite3.connect, execute or commit raises: its
\* `except Exception as e` returns the error response; nothing was committed
\* and update_openai_router() is not reached
HandleStoreError(c, cmd, e) ==
    /\ boot = "serving"
    /\ conn[c].pc = "AwaitingCommand"
    /\ LoopFree(AdminProc)
    /\ running' = [running EXCEPT ![AdminProc] = ConnTask(c)]
    /\ conn' = [conn EXCEPT ![c] =
            [pc |-> "Processed", command |-> cmd,
             response |-> Error("Database error: " \o e), rebuilds |-> 0,
             pre |-> [backends |-> backends, model_mappings |-> model_mappings,
                      table |-> registered_models[ModuleOf(AdminProc)],
                      admin_credentials |-> admin_credentials, user_api_keys |-> user_api_keys,
                      key_seq |-> key_seq, locked |-> locked],
             wire |-> NoWire]]
    /\ UNCHANGED <<authVars, backends, model_mappings, registered_models, complete, boot, rb, req>>

\* update_openai_router whose sqlite3.connect or SELECT raises: its own
\* `except Exception` prints the error and the coroutine returns normally,
\* without calling update_registered_models; the caller goes on as after a
\* rebuild
RebuildReadError(p) ==
    /\ rb[p].phase = "read"
    /\ LoopOrReturn(p, registered_models[ModuleOf(p)], <<>>)
    /\ UNCHANGED <<authVars, backends, model_mappings, req>>

(* ------------------------------------------------------ request router *)
NotFound == "NotFound"

\* the dict of the router's process is as the last finished update left it
TableWhole == registered_models[ModuleOf(MainProc)] = complete[ModuleOf(MainProc)]

\* a lookup that falls back to the first registered backend
ResolveOrFirst(table, m) ==
    IF HasKey(table, m) THEN Get(table, m)
    ELSE IF table # EmptyDict THEN table[1][2] ELSE NotFound

\* resolve: `model in registered_models`, then registered_models[model]
Resolve(table, m) == IF HasKey(table, m) THEN Get(table, m) ELSE NotFound

\* POST /v1/chat/completions: the membership test and the lookup run without
\* an await between them; an absent model raises HTTPException(404), a present
\* one leads to `await client.post(f"{backend_url}/chat/completions", ...)`
ChatCompletions(r, m) ==
    /\ req[r].pc = "idle"
    /\ LoopFree(MainProc)
    /\ LET url == Resolve(registered_models[ModuleOf(MainProc)], m)
       IN  req' = [req EXCEPT ![r] =
                IF url = NotFound
                THEN [IdleReq EXCEPT !.pc = "done", !.kind = "chat", !.model = m,
                                     !.status = 404, !.detail = <<"Model not found", m>>,
                                     !.seen = registered_models[ModuleOf(MainProc)],
                                     !.whole = TableWhole, !.mid = RebuildInProgress]
                ELSE [IdleReq EXCEPT !.pc = "forwarding", !.kind = "chat", !.model = m,
                                     !.url = url, !.outbound = 1,
                                     !.seen = registered_models[ModuleOf(MainProc)],
                                     !.whole = TableWhole, !.mid = RebuildInProgress]]
    /\ UNCHANGED <<authVars, backends, model_mappings, registered_models, complete, running, boot, conn, rb>>

\* GET /v1/models: one entry per key of registered_models
ListModels(r) ==
    /\ req[r].pc = "idle"
    /\ LoopFree(MainProc)
    /\ req' = [req EXCEPT ![r] = [IdleReq EXCEPT !.pc = "done", !.kind = "list", !.status = 200,
                                    !.listing = KeyList(registered_models[ModuleOf(MainProc)]),
                                    !.seen = registered_models[ModuleOf(MainProc)],
                                    !.whole = TableWhole, !.mid = RebuildInProgress]]
    /\ UNCHANGED <<authVars, backends, model_mappings, registered_models, complete, running, boot, conn, rb>>

\* what the awaited client.post and response.json() can do
BackendOutcomes == {"json", "not json", "transport error"}

\* str(e) of the exception the outer `except Exception as e` catches.  For the
\* HTTPException of the inner except it is "" or "<status>: <detail>",
\* depending on the installed starlette; a transport error's text is httpx's,
\* which is empty for some timeouts
StrOfException(outcome) ==
    CASE outcome = "not json" -> {"", "500: Error parsing backend response"}
      [] outcome = "transport error" -> {"", "All connection attempts failed"}
      [] OTHER -> {""}

\* a router that looks the model up again when the backend has answered
BackendReplyRereading(r, outcome) ==
    /\ req[r].pc = "forwarding"
    /\ LoopFree(MainProc)
    /\ \E text \in StrOfException(outcome) :
          req' = [req EXCEPT ![r] =
            IF ~HasKey(registered_models[ModuleOf(MainProc)], req[r].model)
            THEN [req[r] EXCEPT !.pc = "done", !.status = 404,
                                !.detail = <<"Model not found", req[r].model>>]
            ELSE IF outcome = "json"
            THEN [req[r] EXCEPT !.pc = "done", !.status = 200, !.body = "backend json",
                                !.url = Get(registered_models[ModuleOf(MainProc)], req[r].model)]
            ELSE [req[r] EXCEPT !.pc = "done", !.status = 500,
                      !.detail = <<"Error forwarding request to backend", text>>]]
    /\ UNCHANGED <<authVars, backends, model_mappings, registered_models, complete, running, boot, conn, rb>>

\* a router that posts a second time after a failed call
BackendReplyRetrying(r, outcome) ==
    /\ req[r].pc = "forwarding"
    /\ LoopFree(MainProc)
    /\ \E text \in StrOfException(outcome) :
          req' = [req EXCEPT ![r] =
            IF outcome = "json"
            THEN [req[r] EXCEPT !.pc = "done", !.status = 200, !.body = "backend json"]
            ELSE IF req[r].outbound < 2
            THEN [req[r] EXCEPT !.outbound = req[r].outbound + 1]
            ELSE [req[r] EXCEPT !.pc = "done", !.status = 500,
                      !.detail = <<"Error forwarding request to backend", text>>]]
    /\ UNCHANGED <<authVars, backends, model_mappings, registered_models, complete, running, boot, conn, rb>>

\* client.post returns or raises.  A parsed body is returned as it is.  The
\* HTTPException(500, "Error parsing backend response") raised in the inner
\* except is an Exception raised inside the outer try, so the outer
\* `except Exception` replaces it, as it replaces a transport error, by
\* HTTPException(500, "Error forwarding request to backend: " + str(e))
BackendReply(r, outcome) ==
    /\ req[r].pc = "forwarding"
    /\ LoopFree(MainProc)
    /\ \E text \in StrOfException(outcome) :
          req' = [req EXCEPT ![r] =
            IF outcome = "json"
            THEN [req[r] EXCEPT !.pc = "done", !.status = 200, !.body = "backend json"]
            ELSE [req[r] EXCEPT !.pc = "done", !.status = 500,
                      !.detail = <<"Error forwarding request to backend", text>>]]
    /\ UNCHANGED <<authVars, backends, model_mappings, registered_models, complete, running, boot, conn, rb>>

\* the response went to the HTTP client
ReqDone(r) ==
    /\ req[r].pc = "done"
    /\ req' = [req EXCEPT ![r] = IdleReq]
    /\ UNCHANGED <<authVars, backends, model_mappings, registered_models, complete, running, boot, conn, rb>>

(* ------------------------------------------------------- specifications *)
\* the admin process
NextAdmin ==
    \/ BootRebuild
    \/ \E c \in Conns : Accept(c)
    \/ \E c \in Conns : \E cmd \in Commands : Handle(c, cmd, "t1")
    \/ \E c \in Conns : Send(c)
    \/ \E c \in Conns : Close(c)
    \/ RebuildRead(AdminProc)
    \/ RebuildClear(AdminProc)
    \/ RebuildRegister(AdminProc)

\* the uvicorn process, as start_server runs it
NextMain ==
    \/ \E r \in Reqs : \E m \in Models : ChatCompletions(r, m)
    \/ \E r \in Reqs : ListModels(r)
    \/ \E r \in Reqs : ReqDone(r)

Next == NextAdmin \/ NextMain

\* the dicts a caller of update_registered_models can pass
ModelBackendDicts ==
    {<<>>} \cup {<< <<m, u>> >> : m \in Models, u \in Urls}
           \cup UNION {{<< <<m, u>>, <<n, v>> >> : n \in Models \ {m}, u \in Urls, v \in Urls} : m \in Models}

\* the system start_server starts: both processes
Spec == Init /\ [][Next]_vars

\* the admin process alone (no step of the other process changes its state)
SpecAdmin == Init /\ [][NextAdmin]_vars

\* the admin process with one client at a time that sends user API key commands
NextKeys ==
    \/ BootRebuild
    \/ RebuildRead(AdminProc)
    \/ RebuildClear(AdminProc)
    \/ Accept(1)
    \/ \E cmd \in KeyCommands : \E now \in Times : Handle(1, cmd, now)
    \/ Send(1)
    \/ Close(1)
    \/ Collect

SpecKeys == Init /\ [][NextKeys]_vars

\* the admin process with one client at a time that sends add and remove
\* commands of every record kind
NextAddRemove ==
    \/ BootRebuild
    \/ Accept(1)
    \/ \E cmd \in AddRemoveCommands : Handle(1, cmd, "t1")
    \/ Send(1)
    \/ Close(1)
    \/ RebuildRead(AdminProc)
    \/ RebuildClear(AdminProc)
    \/ RebuildRegister(AdminProc)
    \/ Collect

SpecAddRemove == Init /\ [][NextAddRemove]_vars

\* everything a client may send in the first 1024 bytes of a connection
Envelopes == CatalogCommands \cup IncompleteCommands \cup UnknownCommands \cup {NotJson, JsonArray}

\* the admin process with one client at a time that sends any envelope
NextCatalog ==
    \/ BootRebuild
    \/ Accept(1)
    \/ \E data \in Envelopes : Handle(1, data, "t1")
    \/ Send(1)
    \/ Close(1)
    \/ RebuildRead(AdminProc)
    \/ RebuildClear(AdminProc)
    \/ RebuildRegister(AdminProc)
    \/ Collect

SpecCatalog == Init /\ [][NextCatalog]_vars

\* the commands on admin credentials
AuthCommands ==
    {AddAdminAuthCmd(n, cr) : n \in Names, cr \in Credentials}
        \cup {RemoveAdminAuthCmd(n) : n \in Names}
        \cup {GetAdminAuthCmd(n) : n \in Names}
        \cup {ListAdminAuthCmd}

\* the admin process with one client at a time that works on credentials
NextAuth ==
    \/ BootRebuild
    \/ Accept(1)
    \/ \E cmd \in AuthCommands : Handle(1, cmd, "t1")
    \/ Send(1)
    \/ Close(1)
    \/ RebuildRead(AdminProc)
    \/ RebuildClear(AdminProc)

SpecAuth == Init /\ [][NextAuth]_vars

\* one command of each kind that writes the store, on one record of each kind
FrameCommands ==
    {AddAdminAuthCmd("n1", "c1"), RemoveAdminAuthCmd("n1"),
     AddUserApiKeyCmd("k1"), RemoveUserApiKeyCmd("k1"),
     AddBackendCmd("A", "u1"), RemoveBackendCmd("A", "u1"),
     AddMappingCmd("m1", "A"), RemoveMappingCmd("m1")}
        \cup {ActivateUserApiKeyCmd(i) : i \in 1..2}
        \cup {DeactivateUserApiKeyCmd(i) : i \in 1..2}

\* the admin process with one client at a time that sends writing commands
NextFrame ==
    \/ BootRebuild
    \/ Accept(1)
    \/ \E cmd \in FrameCommands : Handle(1, cmd, "t1")
    \/ Send(1)
    \/ Close(1)
    \/ RebuildRead(AdminProc)
    \/ RebuildClear(AdminProc)
    \/ RebuildRegister(AdminProc)
    \/ Collect

SpecFrame == Init /\ [][NextFrame]_vars

\* what the client of connection c does after connecting: it sends an
\* envelope, which handle_client reads and handles, or it closes
ClientActs(c) ==
    \/ \E data \in Envelopes : Handle(c, data, "t1")
    \/ EmptyRead(c)

\* the admin process with one client at a time that sends any envelope or
\* none
NextLife ==
    \/ BootRebuild
    \/ Accept(1)
    \/ ClientActs(1)
    \/ Send(1)
    \/ Close(1)
    \/ RebuildRead(AdminProc)
    \/ RebuildClear(AdminProc)
    \/ RebuildRegister(AdminProc)
    \/ Collect

\* the event loop runs every task that is ready, and a client that has
\* connected sends or closes
SpecLife ==
    /\ Init /\ [][NextLife]_vars
    /\ WF_vars(BootRebuild)
    /\ WF_vars(ClientActs(1))
    /\ WF_vars(Send(1))
    /\ WF_vars(Close(1))
    /\ WF_vars(RebuildRead(AdminProc))
    /\ WF_vars(RebuildClear(AdminProc))
    /\ WF_vars(RebuildRegister(AdminProc))

\* the admin process with one client at a time, restarted at any moment
NextRestart ==
    \/ BootRebuild
    \/ Accept(1)
    \/ \E cmd \in Commands : Handle(1, cmd, "t1")
    \/ Send(1)
    \/ Close(1)
    \/ RebuildRead(AdminProc)
    \/ RebuildClear(AdminProc)
    \/ RebuildRegister(AdminProc)
    \/ Restart

SpecRestart == Init /\ [][NextRestart]_vars

\* the commands that write backends and mappings, for one provider
FaultCommands ==
    {AddBackendCmd("A", u) : u \in Urls} \cup {RemoveBackendCmd("A", u) : u \in Urls}
        \cup {AddMappingCmd(m, "A") : m \in Models} \cup {RemoveMappingCmd(m) : m \in Models}

\* the admin process with one client at a time and a store that can fail
NextFaults ==
    \/ BootRebuild
    \/ Accept(1)
    \/ \E cmd \in FaultCommands : Handle(1, cmd, "t1")
    \/ \E cmd \in FaultCommands : \E e \in StoreErrors : HandleStoreError(1, cmd, e)
    \/ Send(1)
    \/ Close(1)
    \/ RebuildRead(AdminProc)
    \/ RebuildReadError(AdminProc)
    \/ RebuildClear(AdminProc)
    \/ RebuildRegister(AdminProc)

SpecFaults == Init /\ [][NextFaults]_vars

(* ----------------------------------------- main.py: the REST endpoints *)
\* the calls of the endpoints under /admin/auth, /admin/backend and
\* /admin/model_mapping, each named by its function in main.py
RestCalls ==
    {[endpoint |-> "add_auth", name |-> "n1", credentials |-> "c1"],
     [endpoint |-> "remove_auth", name |-> "n1"],
     [endpoint |-> "list_auth"],
     [endpoint |-> "get_auth", name |-> "n1"],
     [endpoint |-> "list_backends"],
     [endpoint |-> "get_backend", provider |-> "A"],
     [endpoint |-> "add_model_mapping", model_name |-> "m1", provider |-> "A"],
     [endpoint |-> "remove_model_mapping", model_name |-> "m1"],
     [endpoint |-> "list_model_mappings"],
     [endpoint |-> "get_model_mapping", model_name |-> "m1"]}
        \cup {[endpoint |-> e, provider |-> "A", url |-> u] :
                  e \in {"add_backend", "remove_backend"}, u \in Urls}

\* the command dict the endpoint builds and hands to send_admin_command: the
\* call's parameters and the command name written in the endpoint's body
RestCommand(call) ==
    [k \in (DOMAIN call \ {"endpoint"}) \cup {"command"} |->
        IF k = "command" THEN call.endpoint ELSE call[k]]

RestCommands == {RestCommand(call) : call \in RestCalls}

\* what the endpoint answers its HTTP caller for the admin response: 200 with
\* the response's fields, or HTTPException(400, detail=response["message"])
RestReply(response) ==
    IF response.status = "success"
    THEN [status_code |-> 200,
          body |-> IF "message" \in DOMAIN response THEN response.message ELSE response.payload]
    ELSE [status_code |-> 400, detail |-> response.message]

\* the admin process with the REST endpoints of main.py as its only client
NextRest ==
    \/ BootRebuild
    \/ Accept(1)
    \/ \E call \in RestCalls : Handle(1, RestCommand(call), "t1")
    \/ Send(1)
    \/ Close(1)
    \/ RebuildRead(AdminProc)
    \/ RebuildClear(AdminProc)
    \/ RebuildRegister(AdminProc)

SpecRest == Init /\ [][NextRest]_vars

\* update_registered_models(model_backends) called in the process that serves
\* the router: the module openai_router with a caller of its update function
HarnessUpdate(mb) ==
    /\ LoopFree(MainProc)
    /\ rb[MainProc].phase = "idle"
    /\ running' = [running EXCEPT ![MainProc] = HarnessTask]
    /\ rb' = [rb EXCEPT ![MainProc] = [IdleRb EXCEPT !.phase = "clear", !.caller = HarnessTask,
                                                     !.model_backends = mb]]
    /\ UNCHANGED <<authVars, backends, model_mappings, registered_models, complete, boot, conn, req>>

NextRouter ==
    \/ \E mb \in ModelBackendDicts : HarnessUpdate(mb)
    \/ RebuildClear(MainProc)
    \/ RebuildRegister(MainProc)
    \/ \E r \in Reqs : \E m \in Models : ChatCompletions(r, m)
    \/ \E r \in Reqs : \E o \in BackendOutcomes : BackendReply(r, o)
    \/ \E r \in Reqs : ListModels(r)
    \/ \E r \in Reqs : ReqDone(r)

\* the router module with its table filled by calls of update_registered_models
SpecRouter == Init /\ [][NextRouter]_vars

\* the commands a client writes as bytes
WireCommands ==
    {AddBackendCmd("A", "u1"), AddBackendCmd("B", "u2"), RemoveBackendCmd("A", "u1"),
     AddMappingCmd("m1", "A"), RemoveMappingCmd("m1"), ListBackendsCmd}

\* how the bytes of an envelope are laid out and arrive: <<head, wide, tail,
\* space, first>>.  In order: 56 bytes at once; 56 bytes of which 20 arrive
\* first; an object of 56 bytes whose trailing newline arrives later; 1024
\* bytes; 1025 bytes; 1154 bytes; an object of 56 bytes and 1100 spaces; 600
\* two-byte characters of which the read ends inside one; the same with the
\* read ending between two of them
Layouts ==
    {<<54, 0, 2, 0, 56>>, <<54, 0, 2, 0, 20>>, <<54, 0, 2, 1, 56>>,
     <<1022, 0, 2, 0, 1024>>, <<1023, 0, 2, 0, 1025>>, <<1152, 0, 2, 0, 1154>>,
     <<54, 0, 2, 1100, 1156>>,
     <<53, 600, 2, 0, 1255>>, <<54, 600, 2, 0, 1256>>}

Wires == {Wire(cmd, l[1], l[2], l[3], l[4], l[5]) : cmd \in WireCommands, l \in Layouts}

\* the admin process with one client at a time that writes an envelope of
\* any length, which arrives in one piece or in two
NextRead ==
    \/ BootRebuild
    \/ Accept(1)
    \/ \E w \in Wires : Receive(1, w, "t1")
    \/ EmptyRead(1)
    \/ Send(1)
    \/ Close(1)
    \/ RebuildRead(AdminProc)
    \/ RebuildClear(AdminProc)
    \/ RebuildRegister(AdminProc)

SpecRead == Init /\ [][NextRead]_vars

(* ===================================================== the claims ====== *)
\* no admin task holds the loop: every command received so far has completed
AdminQuiescent == boot = "serving" /\ LoopFree(AdminProc)

AdminTable == registered_models[ModuleOf(AdminProc)]

\* the provider stored for model m ("-" when m has no row)
ProviderOf(m) ==
    IF \E i \in DOMAIN model_mappings : model_mappings[i][1] = m
    THEN model_mappings[CHOOSE i \in DOMAIN model_mappings : model_mappings[i][1] = m][2]
    ELSE Absent

\* the URL of the first-inserted row that provider p still has
FirstUrl(p) ==
    IF \E j \in DOMAIN backends : backends[j][1] = p
    THEN backends[CHOOSE j \in DOMAIN backends :
                      /\ backends[j][1] = p
                      /\ \A k \in DOMAIN backends : backends[k][1] = p => j <= k][2]
    ELSE NotFound

\* what resolve(m) has to be for the stored records
ExpectedUrl(m) == FirstUrl(ProviderOf(m))

Count(rows, r) == Cardinality({i \in DOMAIN rows : rows[i] = r})

RowsOfModel(rows, m) == {i \in DOMAIN rows : rows[i][1] = m}

(* C1: once every command of a sequence of add_backend / remove_backend /
   add_model_mapping / remove_model_mapping has completed, resolve(m) on the
   table the rebuild writes is, for every model m, the first-inserted URL still
   stored for the provider mapped to m, and NotFound when m is unmapped or its
   provider has no URL. *)
C1_ResolveIsFirstUrl ==
    AdminQuiescent => \A m \in Models : Resolve(AdminTable, m) = ExpectedUrl(m)

\* m1's provider has two URLs and m1 resolves to the one inserted first, which
\* is not the smaller one; m2 is mapped to a provider without URLs
C1_Witness ==
    /\ AdminQuiescent
    /\ backends = << <<"A", "u2">>, <<"A", "u1">> >>
    /\ ProviderOf("m1") = "A" /\ Resolve(AdminTable, "m1") = "u2"
    /\ ProviderOf("m2") = "B" /\ Resolve(AdminTable, "m2") = NotFound

\* the stored records show what command cmd asked for
EffectInStore(cmd) ==
    CASE cmd.command = "add_backend" -> Count(backends, <<cmd.provider, cmd.url>>) = 1
      [] cmd.command = "remove_backend" -> Count(backends, <<cmd.provider, cmd.url>>) = 0
      [] cmd.command = "add_model_mapping" -> ProviderOf(cmd.model_name) = cmd.provider
      [] cmd.command = "remove_model_mapping" -> ProviderOf(cmd.model_name) = Absent
      [] OTHER -> FALSE

RoutingMutators == {"add_backend", "remove_backend", "add_model_mapping", "remove_model_mapping"}

(* C2: whenever one of the four routing mutators has produced a response with
   status "success", a rebuild ran to its end after the command's store write
   and before that response, and at that moment the table the rebuild writes
   reflects the mutation: the stored records show the command's effect and the
   table resolves every model as those records require. *)
C2_SuccessAfterRebuild ==
    \A c \in Conns :
        (/\ conn[c].pc = "Processed"
         /\ conn[c].command.command \in RoutingMutators
         /\ conn[c].response.status = "success")
        => /\ conn[c].rebuilds >= 1
           /\ rb[AdminProc].phase = "idle"
           /\ AdminTable = complete[ModuleOf(AdminProc)]
           /\ EffectInStore(conn[c].command)
           /\ \A m \in Models : Resolve(AdminTable, m) = ExpectedUrl(m)

\* remove_backend answered success and its rebuild changed the table
C2_Witness ==
    \E c \in Conns :
        /\ conn[c].pc = "Processed"
        /\ conn[c].command.command = "remove_backend"
        /\ conn[c].response.status = "success"
        /\ conn[c].rebuilds = 1
        /\ conn[c].pre.table # EmptyDict
        /\ AdminTable # conn[c].pre.table

(* C3: the table the request router reads is the table the admin handler
   rebuilds: once the admin commands received so far have completed and the
   stored records give model m a URL (as after add_backend("acme", u) and
   add_model_mapping("demo-model", "acme")), the next chat-completion request
   for m is forwarded to that URL and does not fail with ModelNotFound. *)
C3_RouterReadsRebuiltTable ==
    [][\A r \in Reqs : \A m \in Models :
          (AdminQuiescent /\ ExpectedUrl(m) # NotFound /\ ChatCompletions(r, m))
              => (/\ req'[r].pc = "forwarding"
                  /\ req'[r].status # 404
                  /\ req'[r].url = ExpectedUrl(m))]_vars

(* C4: a read of the route table never sees an intermediate table: whenever a
   task of a process can run (no task of that process is inside a handler or
   an update), the registered_models dict that process reads is a table some
   update left complete, and every table a request did read was complete. *)
C4_ReadsSeeCompleteTable ==
    /\ \A p \in Procs :
          LoopFree(p) => registered_models[ModuleOf(p)] = complete[ModuleOf(p)]
    /\ \A r \in Reqs : req[r].whole

\* a request read its table while the rebuild of a command was between clear()
\* and its return, with one of the two new entries registered
C4_Witness ==
    \E r \in Reqs :
        /\ req[r].pc = "done"
        /\ req[r].mid
        /\ rb[AdminProc].phase = "register"
        /\ Len(rb[AdminProc].model_backends) = 2
        /\ Len(AdminTable) = 1
        /\ AdminTable # complete[ModuleOf(AdminProc)]

(* C5: with several admin connections open, the rebuild of a mutating command
   reads the store after that command's own committed write: the model_backends
   it computes, and the table it leaves, show the command's effect (they
   resolve every model as the records stored after the write require). *)
C5_RebuildReadsOwnWrite ==
    \A c \in Conns :
        /\ (/\ conn[c].pc = "Processing"
            /\ rb[AdminProc].caller = ConnTask(c)
            /\ rb[AdminProc].phase \in {"clear", "register"})
           => /\ EffectInStore(conn[c].command)
              /\ \A m \in Models : Resolve(rb[AdminProc].model_backends, m) = ExpectedUrl(m)
        /\ (conn[c].pc = "Processed" /\ conn[c].rebuilds >= 1)
           => /\ EffectInStore(conn[c].command)
              /\ \A m \in Models : Resolve(AdminTable, m) = ExpectedUrl(m)

\* the rebuild of add_model_mapping("m1", "A") has read the store and found
\* the new mapping, while the connection of an earlier command is still open
C5_Witness ==
    \E c \in Conns : \E d \in Conns \ {c} :
        /\ conn[c].pc = "Processing"
        /\ conn[c].command = AddMappingCmd("m1", "A")
        /\ rb[AdminProc].caller = ConnTask(c)
        /\ rb[AdminProc].phase = "clear"
        /\ RowsOfModel(conn[c].pre.model_mappings, "m1") = {}
        /\ Resolve(rb[AdminProc].model_backends, "m1") = "u1"
        /\ conn[d].pc \in {"AwaitingCommand", "Responding"}

(* C6: a chat completion request whose model is not a key of the table it
   read is answered 404 with a detail that names the model, and no outbound
   call is made for it. *)
C6_AbsentModelNotFound ==
    \A r \in Reqs :
        (req[r].kind = "chat" /\ ~HasKey(req[r].seen, req[r].model))
        => /\ req[r].pc = "done"
           /\ req[r].status = 404
           /\ req[r].detail = <<"Model not found", req[r].model>>
           /\ req[r].outbound = 0
           /\ req[r].url = Absent

\* "m2" was asked for while the table held a backend for "m1" only
C6_Witness ==
    \E r \in Reqs :
        /\ req[r].kind = "chat"
        /\ req[r].model = "m2"
        /\ Keys(req[r].seen) = {"m1"}
        /\ req[r].status = 404

(* C7: GET /v1/models lists exactly the models that the stored records route:
   once the admin commands have returned, the listing holds one entry for
   each model whose provider has a stored URL (so "demo-model" alone after
   add_backend and add_model_mapping on an empty store) and no entry for a
   model whose provider has none. *)
C7_ListingIsResolvable ==
    [][\A r \in Reqs :
          (AdminQuiescent /\ ListModels(r))
              => /\ {req'[r].listing[i] : i \in DOMAIN req'[r].listing}
                       = {m \in Models : ExpectedUrl(m) # NotFound}
                 /\ Len(req'[r].listing) = Cardinality({m \in Models : ExpectedUrl(m) # NotFound})]_vars

(* C8: add_backend of a (provider, url) pair that is already stored returns
   success and leaves exactly one record of the pair, the order of the
   backends rows, the mappings and the rebuilt table as they were before the
   command. *)
C8_AddBackendIdempotent ==
    \A c \in Conns :
        (/\ conn[c].pc = "Processed"
         /\ conn[c].command.command = "add_backend"
         /\ HasRow(conn[c].pre.backends, <<conn[c].command.provider, conn[c].command.url>>))
        => /\ conn[c].response
                  = Success("Backend URL for '" \o conn[c].command.provider
                                \o "' added successfully")
           /\ Count(backends, <<conn[c].command.provider, conn[c].command.url>>) = 1
           /\ backends = conn[c].pre.backends
           /\ model_mappings = conn[c].pre.model_mappings
           /\ AdminTable = conn[c].pre.table

\* ("A", "u1") is re-added while it is the first of two URLs of "A" and
\* "m1" is routed to it
C8_Witness ==
    \E c \in Conns :
        /\ conn[c].pc = "Processed"
        /\ conn[c].command = AddBackendCmd("A", "u1")
        /\ conn[c].pre.backends = << <<"A", "u1">>, <<"A", "u2">> >>
        /\ Resolve(conn[c].pre.table, "m1") = "u1"
        /\ conn[c].rebuilds = 1

(* C9: remove_backend of a (provider, url) pair that is not stored returns
   the error "No backend URL found for '<provider>'", leaves backends, mappings and the table
   as they were, and runs no rebuild. *)
C9_RemoveAbsentBackend ==
    \A c \in Conns :
        (/\ conn[c].pc = "Processed"
         /\ conn[c].command.command = "remove_backend"
         /\ ~HasRow(conn[c].pre.backends, <<conn[c].command.provider, conn[c].command.url>>))
        => /\ conn[c].response
                  = Error("No backend URL found for '" \o conn[c].command.provider \o "'")
           /\ conn[c].rebuilds = 0
           /\ backends = conn[c].pre.backends
           /\ model_mappings = conn[c].pre.model_mappings
           /\ AdminTable = conn[c].pre.table

\* ("A", "u2") is removed while "A" has "u1" only and "m1" is routed to it
C9_Witness ==
    \E c \in Conns :
        /\ conn[c].pc = "Processed"
        /\ conn[c].command = RemoveBackendCmd("A", "u2")
        /\ conn[c].pre.backends = << <<"A", "u1">> >>
        /\ Resolve(conn[c].pre.table, "m1") = "u1"
        /\ conn[c].response.status = "error"

(* C10: add_model_mapping(m, B) for a model stored with another provider A
   returns success and leaves exactly one record for m, with provider B;
   resolve(m) is then the first URL of B, NotFound when B has none. *)
C10_RemapOverwrites ==
    \A c \in Conns : \A A \in Providers :
        (/\ conn[c].pc = "Processed"
         /\ conn[c].command.command = "add_model_mapping"
         /\ A # conn[c].command.provider
         /\ HasRow(conn[c].pre.model_mappings, <<conn[c].command.model_name, A>>))
        => /\ conn[c].response.status = "success"
           /\ Cardinality(RowsOfModel(model_mappings, conn[c].command.model_name)) = 1
           /\ ProviderOf(conn[c].command.model_name) = conn[c].command.provider
           /\ Resolve(AdminTable, conn[c].command.model_name) = FirstUrl(conn[c].command.provider)

\* "m1" moves from "A", whose URL is "u1", to "B", whose URL is "u2"
C10_Witness ==
    \E c \in Conns :
        /\ conn[c].pc = "Processed"
        /\ conn[c].command = AddMappingCmd("m1", "B")
        /\ HasRow(conn[c].pre.model_mappings, <<"m1", "A">>)
        /\ Resolve(conn[c].pre.table, "m1") = "u1"
        /\ Resolve(AdminTable, "m1") = "u2"

\* "m1" moves from "A" to "B", which has no URL
C10_WitnessNoUrl ==
    \E c \in Conns :
        /\ conn[c].pc = "Processed"
        /\ conn[c].command = AddMappingCmd("m1", "B")
        /\ Resolve(conn[c].pre.table, "m1") = "u1"
        /\ Resolve(AdminTable, "m1") = NotFound

\* the tables and the rebuilt table are as they were when connection c's
\* envelope arrived, and the handler ran no rebuild
NothingChanged(c) ==
    /\ conn[c].rebuilds = 0
    /\ admin_credentials = conn[c].pre.admin_credentials
    /\ user_api_keys = conn[c].pre.user_api_keys
    /\ key_seq = conn[c].pre.key_seq
    /\ backends = conn[c].pre.backends
    /\ model_mappings = conn[c].pre.model_mappings
    /\ AdminTable = conn[c].pre.table

\* the envelope of connection c is an object with a command of the catalog
\* that lacks some of the fields the command requires
LacksField(c) ==
    /\ conn[c].pc \in {"Processing", "Processed"}
    /\ IsJson(conn[c].command) /\ IsObject(conn[c].command)
    /\ CmdType(conn[c].command) \in CommandCatalog
    /\ \E f \in CatalogFields(CmdType(conn[c].command)) : ~HasField(conn[c].command, f)

(* C11: an envelope of any catalog command that omits a required field is
   answered with an error whose message reports a missing field and names an
   omitted field; the handler writes nothing to the store and runs no
   rebuild. *)
C11_MissingFieldReported ==
    \A c \in Conns :
        LacksField(c)
        => /\ conn[c].pc = "Processed"
           /\ conn[c].response.status = "error"
           /\ \E f \in CatalogFields(CmdType(conn[c].command)) :
                  /\ ~HasField(conn[c].command, f)
                  /\ conn[c].response.message = "Missing required field: '" \o f \o "'"
           /\ NothingChanged(c)

\* the data read on connection c is no JSON, no JSON object, or an object
\* whose command is no name of the catalog
Malformed(c) ==
    /\ conn[c].pc \in {"Processing", "Processed"}
    /\ \/ conn[c].command \in {NotJson, JsonArray}
       \/ CmdType(conn[c].command) \notin CommandCatalog

(* C12: an envelope whose command is not in the catalog is answered with the
   error "Unknown command: <value>", bytes that are no JSON with the error
   "Invalid JSON", and a JSON value that is no object with an error response;
   the store and the table stay as they were, and the connection's next step
   writes that response, so it is written before the connection is closed. *)
C12_MalformedAnswered ==
    [][\A c \in Conns :
          Malformed(c)
          => /\ conn[c].pc = "Processed"
             /\ conn[c].response.status = "error"
             /\ conn[c].command = NotJson => conn[c].response.message = "Invalid JSON"
             /\ conn[c].command \notin {NotJson, JsonArray}
                    => conn[c].response.message = "Unknown command: " \o CmdType(conn[c].command)
             /\ NothingChanged(c)
             /\ conn'[c] # conn[c] => (Send(c) /\ conn'[c].pc = "Responding")]_vars

\* bytes that are no JSON were answered while the store and the table held records
C12_Witness ==
    \E c \in Conns :
        /\ conn[c].pc = "Processed"
        /\ conn[c].command = NotJson
        /\ conn[c].response = Error("Invalid JSON")
        /\ backends # <<>> /\ user_api_keys # <<>> /\ AdminTable # EmptyDict

\* a JSON list and an unknown command name were answered
C12_WitnessOthers ==
    \E c \in Conns :
        /\ conn[c].pc = "Processed"
        /\ conn[c].command \in {JsonArray} \cup UnknownCommands
        /\ conn[c].response.status = "error"
        /\ AdminTable # EmptyDict

\* connection c's command is an add_user_api_key of an api_key that was stored
DuplicateAdd(c) ==
    /\ conn[c].pc = "Processed"
    /\ CmdType(conn[c].command) = "add_user_api_key"
    /\ HasField(conn[c].command, "api_key")
    /\ KeyExists(conn[c].pre.user_api_keys, conn[c].command.api_key)

\* connection c's command activates or deactivates an id that no record had
UnknownIdToggle(c) ==
    /\ conn[c].pc = "Processed"
    /\ CmdType(conn[c].command) \in {"activate_user_api_key", "deactivate_user_api_key"}
    /\ HasField(conn[c].command, "id")
    /\ \A i \in DOMAIN conn[c].pre.user_api_keys : conn[c].pre.user_api_keys[i].id # conn[c].command.id

(* C13: add_user_api_key of an api_key that is stored returns the error "API
   key already exists" and leaves the rows of user_api_keys (ids,
   descriptions, created_at, is_active, and their number) as they were;
   activate_user_api_key and deactivate_user_api_key of an id that no record
   has return the error "No user API key found with ID <id>" and change no
   record. *)
C13_DuplicateKeyAndUnknownId ==
    \A c \in Conns :
        /\ DuplicateAdd(c)
           => /\ conn[c].response = Error("API key already exists")
              /\ user_api_keys = conn[c].pre.user_api_keys
        /\ UnknownIdToggle(c)
           => /\ conn[c].response = Error("No user API key found with ID " \o ToString(conn[c].command.id))
              /\ user_api_keys = conn[c].pre.user_api_keys

\* row i of user_api_keys after the step is a record the step created
Created(i) ==
    ~\E j \in DOMAIN user_api_keys :
         /\ user_api_keys[j].id = user_api_keys'[i].id
         /\ user_api_keys[j].api_key = user_api_keys'[i].api_key

(* C14: every record an add_user_api_key creates gets an id greater than
   every id a record of user_api_keys ever had, whatever adds, failed
   duplicate adds and removes came before. *)
C14_IdsNeverReused ==
    [][\A i \in DOMAIN user_api_keys' :
          Created(i) => \A j \in issued : user_api_keys'[i].id > j]_vars

\* "k2" was added with id 2, removed while it had the largest id, and added
\* again: it has id 3; a duplicate add has failed since
C14_Witness ==
    /\ Len(user_api_keys) = 2
    /\ user_api_keys[1].id = 1 /\ user_api_keys[1].api_key = "k1"
    /\ user_api_keys[2].id = 3 /\ user_api_keys[2].api_key = "k2"
    /\ issued = {1, 2, 3}
    /\ locked

DeleteCommands == {"remove_admin_auth", "remove_user_api_key", "remove_backend", "remove_model_mapping"}

\* whether row r of its table is the record the delete command cmd addresses
Addressed(cmd, r) ==
    CASE cmd.command = "remove_admin_auth" -> r[1] = cmd.name
      [] cmd.command = "remove_user_api_key" -> r.api_key = cmd.api_key
      [] cmd.command = "remove_backend" -> r = <<cmd.provider, cmd.url>>
      [] cmd.command = "remove_model_mapping" -> r[1] = cmd.model_name
      [] OTHER -> FALSE

\* the rows of the table the delete command cmd works on, in the store st
TableOf(cmd, st) ==
    CASE cmd.command = "remove_admin_auth" -> st.admin_credentials
      [] cmd.command = "remove_user_api_key" -> st.user_api_keys
      [] cmd.command = "remove_backend" -> st.backends
      [] OTHER -> st.model_mappings

Store ==
    [admin_credentials |-> admin_credentials, user_api_keys |-> user_api_keys,
     backends |-> backends, model_mappings |-> model_mappings]

NotFoundMessages ==
    {"No credentials found for '" \o n \o "'" : n \in Names}
        \cup {"No user API key found"}
        \cup {"No backend URL found for '" \o p \o "'" : p \in Providers}
        \cup {"No model mapping found for '" \o m \o "'" : m \in Models}

(* C15: a delete command (remove_admin_auth, remove_user_api_key,
   remove_backend, remove_model_mapping) answers success exactly when the
   record it addresses was stored immediately before it, and its not-found
   error otherwise; afterwards the addressed record is absent and every other
   record of every table is still stored. *)
C15_DeleteReportsRemoval ==
    \A c \in Conns :
        (conn[c].pc = "Processed" /\ conn[c].command.command \in DeleteCommands)
        => LET cmd == conn[c].command
               before == TableOf(cmd, conn[c].pre)
               existed == \E i \in DOMAIN before : Addressed(cmd, before[i])
           IN  /\ (conn[c].response.status = "success") <=> existed
               /\ ~existed => /\ conn[c].response.status = "error"
                              /\ conn[c].response.message \in NotFoundMessages
               /\ TableOf(cmd, Store) = SelectSeq(before, LAMBDA r : ~Addressed(cmd, r))
               /\ \A other \in DeleteCommands \ {cmd.command} :
                      TableOf([command |-> other], Store) = TableOf([command |-> other], conn[c].pre)

ReadCommands ==
    {"list_admin_auth", "get_admin_auth", "list_user_api_keys", "get_user_api_key",
     "list_backends", "get_backend", "list_model_mappings", "get_model_mapping"}

\* connection c carries a list_* or get_* command with all its fields
Reading(c) ==
    /\ conn[c].pc \in {"Processing", "Processed"}
    /\ conn[c].command \in CatalogCommands
    /\ conn[c].command.command \in ReadCommands

(* C16: a read-only command (a list or get command) never starts a rebuild and
   leaves the credential, API-key, backend and mapping records and the route
   table exactly as they were, whether it answers success or not found. *)
C16_ReadsChangeNothing ==
    \A c \in Conns :
        Reading(c) => /\ conn[c].pc = "Processed"
                      /\ rb[AdminProc].caller # ConnTask(c)
                      /\ NothingChanged(c)

\* get_admin_auth of an absent name is answered not found while backends,
\* mappings, keys and the table are not empty
C16_Witness ==
    \E c \in Conns :
        /\ Reading(c)
        /\ conn[c].command = GetAdminAuthCmd("n1")
        /\ conn[c].response = Error("No credentials found for 'n1'")
        /\ backends # <<>> /\ model_mappings # <<>> /\ user_api_keys # <<>>
        /\ AdminTable # EmptyDict

\* list_backends is answered with the stored URLs while the table routes "m1"
C16_WitnessList ==
    \E c \in Conns :
        /\ Reading(c)
        /\ conn[c].command = ListBackendsCmd
        /\ conn[c].response.status = "success"
        /\ admin_credentials # <<>>
        /\ AdminTable # EmptyDict

\* the catalog command an endpoint of main.py stands for
CatalogNameOf(endpoint) ==
    CASE endpoint = "add_auth" -> "add_admin_auth"
      [] endpoint = "remove_auth" -> "remove_admin_auth"
      [] endpoint = "list_auth" -> "list_admin_auth"
      [] endpoint = "get_auth" -> "get_admin_auth"
      [] OTHER -> endpoint

(* C17: every REST endpoint under /admin/auth, /admin/backend and
   /admin/model_mapping sends a command name of the command catalog, the one
   of its corresponding handler; none is answered "Unknown command", and the
   HTTP caller gets 200 exactly when the handler's status is success. *)
C17_RestSendsCatalogCommands ==
    \A c \in Conns :
        \A call \in RestCalls :
            (conn[c].pc = "Processed" /\ conn[c].command = RestCommand(call))
            => /\ CmdType(conn[c].command) \in CommandCatalog
               /\ CmdType(conn[c].command) = CatalogNameOf(call.endpoint)
               /\ conn[c].response # Error("Unknown command: " \o CmdType(conn[c].command))
               /\ (RestReply(conn[c].response).status_code = 200)
                      <=> (conn[c].response.status = "success")

(* C18: for a chat-completion request whose model resolves, a transport
   failure of the backend call and a backend body that is not JSON are
   reported with status 500 as two distinct error kinds (the reported detail
   of one never equals or leads like that of the other: "Error forwarding
   request to backend" for the transport failure, "Error parsing backend
   response" for the body), and a JSON body is returned as parsed. *)
C18_UpstreamErrorKinds ==
    [][\A r \in Reqs :
          /\ BackendReply(r, "transport error")
                => /\ req'[r].status = 500
                   /\ req'[r].detail[1] = "Error forwarding request to backend"
          /\ BackendReply(r, "not json")
                => /\ req'[r].status = 500
                   /\ req'[r].detail[1] = "Error parsing backend response"
          /\ BackendReply(r, "json")
                => /\ req'[r].status = 200
                   /\ req'[r].body = "backend json"]_vars

(* C19: a storage-engine error raised while an admin command is handled, in
   the handler's own statements or in the store reads of the rebuild the
   command triggers, ends the command with an error response that carries
   the error's message; the connection is answered and the process goes on. *)
C19_StoreErrorsSurface ==
    [][\A c \in Conns :
          \/ \E cmd \in FaultCommands : \E e \in StoreErrors : HandleStoreError(c, cmd, e)
          \/ (rb[AdminProc].caller = ConnTask(c) /\ RebuildReadError(AdminProc))
          => /\ conn'[c].pc = "Processed"
             /\ conn'[c].response.status = "error"
             /\ \E e \in StoreErrors : conn'[c].response.message = "Database error: " \o e]_vars

\* a step of update_openai_router or update_registered_models in the admin process
RebuildStep == RebuildRead(AdminProc) \/ RebuildClear(AdminProc) \/ RebuildRegister(AdminProc)

(* C20: a rebuild of the route table only reads the store: none of its
   steps creates, changes or deletes a credential, API-key, backend or
   mapping record; and it is idempotent: a rebuild that runs while the store
   is as it was at the previous rebuild leaves the table that rebuild left. *)
C20_RebuildPureAndIdempotent ==
    [][/\ RebuildStep => UNCHANGED <<admin_credentials, user_api_keys, key_seq,
                                     backends, model_mappings>>
       /\ \A c \in Conns :
             (/\ conn[c].pc = "Processing"
              /\ conn'[c].pc = "Processed"
              /\ backends' = conn[c].pre.backends
              /\ model_mappings' = conn[c].pre.model_mappings)
             => registered_models'[ModuleOf(AdminProc)] = conn[c].pre.table]_vars

\* add_backend of a stored pair has rebuilt a table that routes "m1", with
\* credentials and keys in the store
C20_Witness ==
    \E c \in Conns :
        /\ conn[c].pc = "Processed"
        /\ conn[c].rebuilds = 1
        /\ conn[c].command = AddBackendCmd("A", "u1")
        /\ backends = conn[c].pre.backends
        /\ model_mappings # <<>>
        /\ admin_credentials # <<>>
        /\ user_api_keys # <<>>
        /\ AdminTable = conn[c].pre.table
        /\ AdminTable # EmptyDict

\* the table of the admin process is the one derived from the stored records
TableDerived == \A m \in Models : Resolve(AdminTable, m) = ExpectedUrl(m)

(* C21: a restart of the admin process keeps every record of the store and
   empties the route table; the rebuild scheduled at start brings the table
   to the one derived from the persisted records, and it has completed
   before the first command of the new process is processed. *)
C21_RestartRebuildsFromStore ==
    [][/\ Restart => /\ UNCHANGED <<admin_credentials, user_api_keys, backends, model_mappings>>
                     /\ AdminTable' = EmptyDict
       /\ (boot # "serving" /\ boot' = "serving") => TableDerived'
       /\ \A c \in Conns :
             (conn[c].pc = "AwaitingCommand" /\ conn'[c].pc \in {"Processing", "Processed"})
             => boot = "serving" /\ TableDerived]_vars

\* the rebuild scheduled at the start of a new process is registering the
\* models of the persisted records
C21_Witness ==
    /\ rb[AdminProc].caller = BootTask
    /\ rb[AdminProc].phase = "register"
    /\ backends # <<>>
    /\ model_mappings # <<>>
    /\ AdminTable # EmptyDict
    /\ \A c \in Conns : conn[c].pc = "Closed"

\* the moves of a connection: a command is taken once, from AwaitingCommand;
\* the one write of a response is the move to Responding; a connection
\* without a request closes without a response
ConnMoves ==
    {<<"Closed", "AwaitingCommand">>, <<"AwaitingCommand", "Processing">>,
     <<"AwaitingCommand", "Processed">>, <<"Processing", "Processed">>,
     <<"Processed", "Responding">>, <<"Responding", "Closed">>,
     <<"AwaitingCommand", "Closed">>}

(* C22: a connection moves AwaitingCommand -> Processing -> Responding ->
   Closed: a command is taken only by a connection that awaits one and never
   again before it is closed, a connection that received a request writes
   its response exactly once and then closes, a connection whose read was
   empty closes without a response, and every accepted connection is
   eventually closed. *)
C22_ConnectionLifecycle ==
    /\ [][\A c \in Conns :
            /\ conn'[c].pc # conn[c].pc => <<conn[c].pc, conn'[c].pc>> \in ConnMoves
            /\ conn'[c].command # conn[c].command
                  => \/ conn[c].pc = "AwaitingCommand" /\ conn[c].command = NoCommand
                     \/ conn'[c].command = NoCommand
            /\ (conn[c].pc = "Processed" /\ conn'[c].pc # "Processed")
                  => conn[c].response # NoResponse /\ conn'[c].pc = "Responding"
            /\ (conn[c].pc = "AwaitingCommand" /\ conn'[c].pc = "Closed") => EmptyRead(c)]_vars
    /\ \A c \in Conns : (conn[c].pc # "Closed") ~> (conn[c].pc = "Closed")

\* a JSON array made command.get raise, and the outer except clause has the
\* error response ready to be written
C22_Witness ==
    \E c \in Conns :
        /\ conn[c].pc = "Processed"
        /\ conn[c].command = JsonArray
        /\ conn[c].response = Error("'list' object has no attribute 'get'")
        /\ backends # <<>>

(* C23: a chat-completion request makes exactly one outbound backend call
   when its model resolves in the table it read, whether the call returns
   JSON, fails in transport or returns a body that is not JSON, and none when
   the model does not resolve; no call is repeated. *)
C23_AtMostOneOutboundCall ==
    \A r \in Reqs :
        req[r].kind = "chat"
        => /\ req[r].outbound
                 = IF Resolve(req[r].seen, req[r].model) = NotFound THEN 0 ELSE 1
           /\ (req[r].pc = "done" /\ req[r].status # 404) => req[r].outbound = 1
           /\ (req[r].pc = "done" /\ req[r].status = 404) => req[r].outbound = 0

\* the call of a request failed in transport and its 500 is ready, after one
\* outbound call
C23_Witness ==
    \E r \in Reqs :
        /\ req[r].kind = "chat" /\ req[r].pc = "done" /\ req[r].status = 500
        /\ req[r].detail = <<"Error forwarding request to backend", "All connection attempts failed">>
        /\ req[r].outbound = 1

\* what get_admin_auth(n) answers on the credential rows
GetOn(rows, n) == get_admin_auth(GetAdminAuthCmd(n), [admin_credentials |-> rows]).response

(* C24: add_admin_auth of a stored name returns success and leaves exactly
   one record of the name, holding the new credentials; get_admin_auth(name)
   answers the credentials of the most recent add of the name (an add makes
   it answer the added credentials, and no command but an add or remove of
   that name changes its answer); after remove_admin_auth(name) it answers
   not found. *)
C24_CredentialUpsert ==
    [][\A c \in Conns :
          (conn[c].pc = "AwaitingCommand" /\ conn'[c].pc = "Processed")
          => LET cmd == conn'[c].command
                 others == IF "name" \in DOMAIN cmd /\ cmd.command # "get_admin_auth"
                           THEN Names \ {cmd.name} ELSE Names
             IN  /\ \A n \in others :
                        GetOn(admin_credentials', n) = GetOn(admin_credentials, n)
                 /\ cmd.command = "add_admin_auth"
                       => /\ conn'[c].response.status = "success"
                          /\ Cardinality(RowsOfModel(admin_credentials', cmd.name)) = 1
                          /\ GetOn(admin_credentials', cmd.name)
                                = SuccessWith(<<cmd.name, cmd.credentials>>)
                 /\ cmd.command = "remove_admin_auth"
                       => GetOn(admin_credentials', cmd.name)
                             = Error("No credentials found for '" \o cmd.name \o "'")
                 /\ cmd.command = "get_admin_auth"
                       => conn'[c].response = GetOn(admin_credentials, cmd.name)]_vars

\* "n1" was stored with "c1", before "n2", and was added again with "c2"
C24_Witness ==
    \E c \in Conns :
        /\ conn[c].pc = "Processed"
        /\ conn[c].command = AddAdminAuthCmd("n1", "c2")
        /\ conn[c].pre.admin_credentials = << <<"n1", "c1">>, <<"n2", "c1">> >>
        /\ conn[c].response.status = "success"
        /\ GetOn(admin_credentials, "n1") = SuccessWith(<<"n1", "c2">>)

\* every command taken by the admin process has returned
AllReturned ==
    /\ boot = "serving"
    /\ \A c \in Conns : conn[c].pc \notin {"Processing", "Processed"}

(* C25: with several admin connections issuing mutating commands in any
   interleaving, the table equals the one derived from the stored records
   once all commands have returned; the snapshot a rebuild installs is
   derived from the records stored at that moment; and between a command's
   store write and the end of its rebuild no other command writes the store
   or starts a rebuild. *)
C25_NoLostUpdate ==
    /\ [](AllReturned => TableDerived)
    /\ [](rb[AdminProc].phase \in {"clear", "register"}
             => \A m \in Models : Resolve(rb[AdminProc].model_backends, m) = ExpectedUrl(m))
    /\ [][\A c \in Conns :
            conn[c].pc = "Processing"
            => /\ UNCHANGED <<backends, model_mappings>>
               /\ rb'[AdminProc].caller \in {ConnTask(c), NoTask}
               /\ \A d \in Conns \ {c} :
                     conn'[d].pc \in {"Processing", "Processed"} => conn'[d] = conn[d]]_vars

\* the commands of two connections that were open together have both
\* returned, and the table routes both models
C25_Witness ==
    /\ AllReturned
    /\ \A c \in Conns : conn[c].pc = "Responding"
    /\ Len(AdminTable) = 2
    /\ Len(model_mappings) = 2

RouterTable == registered_models[ModuleOf(MainProc)]

(* C26: a chat-completion request reads the route table once, before its
   outbound call, and reads a table that an update left complete; while the
   call is pending, no step (a rebuild included) changes the URL the request
   was sent to or turns it into a 404; a request that starts after a rebuild
   has returned resolves in the table that rebuild left. *)
C26_InFlightKeepsUrl ==
    [][\A r \in Reqs :
          /\ req[r].pc = "forwarding"
                => /\ req'[r].pc \in {"forwarding", "done"}
                   /\ req'[r].url = req[r].url
                   /\ req'[r].status # 404
          /\ \A m \in Models :
                ChatCompletions(r, m)
                => /\ RouterTable = complete[ModuleOf(MainProc)]
                   /\ IF HasKey(complete[ModuleOf(MainProc)], m)
                      THEN /\ req'[r].pc = "forwarding"
                           /\ req'[r].url = Get(complete[ModuleOf(MainProc)], m)
                      ELSE req'[r].status = 404]_vars

\* the call for "m1" is pending at "u1" and a rebuild that has returned left
\* a table without "m1"
C26_Witness ==
    \E r \in Reqs :
        /\ req[r].pc = "forwarding"
        /\ req[r].model = "m1"
        /\ req[r].url = "u1"
        /\ rb[MainProc].phase = "idle"
        /\ LoopFree(MainProc)
        /\ ~HasKey(RouterTable, "m1")
        /\ HasKey(RouterTable, "m2")

\* the call for "m1" is pending at "u1" and a rebuild that has returned
\* routes "m1" to "u2"
C26_WitnessOtherUrl ==
    \E r \in Reqs :
        /\ req[r].pc = "forwarding"
        /\ req[r].model = "m1"
        /\ req[r].url = "u1"
        /\ rb[MainProc].phase = "idle"
        /\ Resolve(RouterTable, "m1") = "u2"

\* the backends and mappings after the handlers of the commands cmds, in
\* their order, on the rows st
RECURSIVE StoreAfter(_, _)
StoreAfter(cmds, st) ==
    IF cmds = <<>> THEN st
    ELSE StoreAfter(Tail(cmds),
                    [backends |-> BackendsAfter(Head(cmds), st.backends),
                     model_mappings |-> MappingsAfter(Head(cmds), st.model_mappings)])

\* the table the rebuild of the last of the commands cmds computes
TableAfter(cmds, st) ==
    ModelBackends(SelectBackends(StoreAfter(cmds, st).backends),
                  SelectMappings(StoreAfter(cmds, st).model_mappings))

(* C27: add_model_mapping(m, p) for a provider without URLs returns success
   and leaves m absent from the table; a later add_backend(p, u) makes every
   model mapped to p resolve to u without the mapping being added again; and
   the table after the two commands is the one the opposite order gives. *)
C27_OrderOfAddsIrrelevant ==
    /\ \A c \in Conns :
          conn[c].pc = "Processed"
          => LET cmd == conn[c].command
                 pre == conn[c].pre
             IN  /\ (cmd.command = "add_model_mapping" /\ UrlsOf(pre.backends, cmd.provider) = <<>>)
                       => /\ conn[c].response.status = "success"
                          /\ Resolve(AdminTable, cmd.model_name) = NotFound
                          /\ RowsOfModel(model_mappings, cmd.model_name) # {}
                 /\ (cmd.command = "add_backend" /\ UrlsOf(pre.backends, cmd.provider) = <<>>)
                       => /\ conn[c].response.status = "success"
                          /\ model_mappings = pre.model_mappings
                          /\ \A i \in DOMAIN pre.model_mappings :
                                pre.model_mappings[i][2] = cmd.provider
                                => Resolve(AdminTable, pre.model_mappings[i][1]) = cmd.url
                 /\ cmd.command \in {"add_backend", "add_model_mapping"}
                       => AdminTable = TableAfter(<<cmd>>, pre)
    /\ \A m \in Models, p \in Providers, u \in Urls :
          LET st == [backends |-> backends, model_mappings |-> model_mappings]
          IN  TableAfter(<<AddMappingCmd(m, p), AddBackendCmd(p, u)>>, st)
                 = TableAfter(<<AddBackendCmd(p, u), AddMappingCmd(m, p)>>, st)

\* "m1" was mapped to "B" while "B" had no URL, and add_backend("B", "u1")
\* has made it resolvable; "m2" is routed through "A"
C27_Witness ==
    \E c \in Conns :
        /\ conn[c].pc = "Processed"
        /\ conn[c].command = AddBackendCmd("B", "u1")
        /\ conn[c].pre.model_mappings = << <<"m2", "A">>, <<"m1", "B">> >>
        /\ conn[c].pre.backends = << <<"A", "u2">> >>
        /\ Resolve(conn[c].pre.table, "m1") = NotFound
        /\ Resolve(AdminTable, "m1") = "u1"
        /\ Resolve(AdminTable, "m2") = "u2"

\* the first URL of provider p in the rows, NotFound when it has none
FirstOf(rows, p) ==
    IF \E i \in DOMAIN rows : rows[i][1] = p
    THEN rows[CHOOSE i \in DOMAIN rows :
                  rows[i][1] = p /\ \A k \in 1..(i - 1) : rows[k][1] # p][2]
    ELSE NotFound

(* C28: the first URL follows insertion order under removal: after
   remove_backend(p, u) the models mapped to p resolve to the earliest
   inserted URL of p that is left, and to NotFound when none is left, their
   mapping records staying stored; after add_backend(p, u) for a provider that
   has URLs they resolve as before (a URL added again after its removal is
   stored last). *)
C28_FirstUrlUnderRemoval ==
    \A c \in Conns :
        (conn[c].pc = "Processed" /\ conn[c].command.command \in {"add_backend", "remove_backend"})
        => LET cmd == conn[c].command
               pre == conn[c].pre
               pair == <<cmd.provider, cmd.url>>
               left == SelectSeq(pre.backends, LAMBDA r : r # pair)
               mapped == {pre.model_mappings[i][1] :
                             i \in {j \in DOMAIN pre.model_mappings :
                                        pre.model_mappings[j][2] = cmd.provider}}
           IN  /\ model_mappings = pre.model_mappings
               /\ cmd.command = "remove_backend"
                     => /\ backends = left
                        /\ \A m \in mapped : Resolve(AdminTable, m) = FirstOf(left, cmd.provider)
               /\ cmd.command = "add_backend"
                     => /\ backends = IF HasRow(pre.backends, pair) THEN pre.backends
                                      ELSE Append(pre.backends, pair)
                        /\ FirstOf(pre.backends, cmd.provider) # NotFound
                              => \A m \in mapped :
                                    Resolve(AdminTable, m) = FirstOf(pre.backends, cmd.provider)

\* "u1" is added to "A" again while "A" has "u2", and "m1" still resolves to
\* "u2"
C28_Witness ==
    \E c \in Conns :
        /\ conn[c].pc = "Processed"
        /\ conn[c].command = AddBackendCmd("A", "u1")
        /\ conn[c].pre.backends = << <<"A", "u2">> >>
        /\ backends = << <<"A", "u2">>, <<"A", "u1">> >>
        /\ conn[c].pre.model_mappings = << <<"m1", "A">> >>
        /\ Resolve(conn[c].pre.table, "m1") = "u2"
        /\ Resolve(AdminTable, "m1") = "u2"

\* the last URL of "A" is removed: "m1" keeps its mapping and is not routed
C28_WitnessLastUrl ==
    \E c \in Conns :
        /\ conn[c].pc = "Processed"
        /\ conn[c].command = RemoveBackendCmd("A", "u2")
        /\ conn[c].pre.backends = << <<"A", "u2">> >>
        /\ backends = <<>>
        /\ model_mappings = << <<"m1", "A">> >>
        /\ Resolve(conn[c].pre.table, "m1") = "u2"
        /\ Resolve(AdminTable, "m1") = NotFound

CredentialAndKeyCommands ==
    {"add_admin_auth", "remove_admin_auth", "add_user_api_key", "remove_user_api_key",
     "activate_user_api_key", "deactivate_user_api_key"}

(* C29: the commands that write credentials and user API keys (add and
   remove admin_auth, add, remove, activate and deactivate user_api_key)
   never change a backend or mapping record, never start a rebuild and never
   change the route table; the four routing mutators never change a
   credential or user-API-key record. *)
C29_RoutingFrame ==
    \A c \in Conns :
        conn[c].pc \in {"Processing", "Processed"}
        => /\ conn[c].command.command \in CredentialAndKeyCommands
                 => /\ conn[c].pc = "Processed"
                    /\ conn[c].rebuilds = 0
                    /\ rb[AdminProc].caller # ConnTask(c)
                    /\ backends = conn[c].pre.backends
                    /\ model_mappings = conn[c].pre.model_mappings
                    /\ AdminTable = conn[c].pre.table
           /\ conn[c].command.command \in RoutingMutators
                 => /\ admin_credentials = conn[c].pre.admin_credentials
                    /\ user_api_keys = conn[c].pre.user_api_keys
                    /\ key_seq = conn[c].pre.key_seq

\* a key has been deactivated while a backend, a mapping, a credential and a
\* route are stored
C29_Witness ==
    \E c \in Conns :
        /\ conn[c].pc = "Processed"
        /\ conn[c].command.command = "deactivate_user_api_key"
        /\ conn[c].response = Success("User API key deactivated")
        /\ user_api_keys # conn[c].pre.user_api_keys
        /\ admin_credentials # <<>>
        /\ backends # <<>> /\ model_mappings # <<>>
        /\ AdminTable # EmptyDict

\* a mapping has been removed, with its rebuild, while credentials and keys
\* are stored
C29_WitnessRouting ==
    \E c \in Conns :
        /\ conn[c].pc = "Processed"
        /\ conn[c].command = RemoveMappingCmd("m1")
        /\ conn[c].rebuilds = 1
        /\ admin_credentials # <<>>
        /\ user_api_keys # <<>>

\* connection c has processed activate (value TRUE) or deactivate (value
\* FALSE) of an id that a stored record had
TogglesStoredId(c, value) ==
    /\ conn[c].pc = "Processed"
    /\ conn[c].command.command
          = (IF value THEN "activate_user_api_key" ELSE "deactivate_user_api_key")
    /\ \E i \in DOMAIN conn[c].pre.user_api_keys :
          conn[c].pre.user_api_keys[i].id = conn[c].command.id

\* the key rows are those before the command of c, but for is_active of the
\* record the command names, which is value
OnlyActiveSet(c, value) ==
    /\ Len(user_api_keys) = Len(conn[c].pre.user_api_keys)
    /\ \A i \in DOMAIN user_api_keys :
          LET old == conn[c].pre.user_api_keys[i]
          IN  user_api_keys[i]
                 = IF old.id = conn[c].command.id THEN [old EXCEPT !.is_active = value] ELSE old

(* C30: a user API key record is active when it has just been added;
   activate_user_api_key of a stored id returns success and leaves is_active
   true, deactivate_user_api_key returns success and leaves it false,
   whatever the value before; neither changes the id, api_key or description
   of that record or any field of another record. *)
C30_ActivateDeactivate ==
    \A c \in Conns :
        /\ (/\ conn[c].pc = "Processed"
            /\ conn[c].command.command = "add_user_api_key"
            /\ conn[c].response.status = "success")
           => \E i \in DOMAIN user_api_keys :
                 /\ user_api_keys[i].api_key = conn[c].command.api_key
                 /\ user_api_keys[i].is_active
        /\ TogglesStoredId(c, TRUE)
           => /\ conn[c].response = Success("User API key activated")
              /\ OnlyActiveSet(c, TRUE)
        /\ TogglesStoredId(c, FALSE)
           => /\ conn[c].response = Success("User API key deactivated")
              /\ OnlyActiveSet(c, FALSE)

\* the handler of connection c has worked on an envelope that is longer than
\* one read, or of which the read returned only a part
ReadPartOf(c) ==
    /\ conn[c].pc \in {"Processing", "Processed"}
    /\ conn[c].wire # NoWire
    /\ \/ WireLen(conn[c].wire) > ReadSize
       \/ conn[c].wire.first < WireLen(conn[c].wire)

(* C31: the admin handler reads at most 1024 bytes, once, per connection: an
   envelope whose encoding is longer than 1024 bytes, or of which the first
   read returns only a prefix, is never executed as a command; it is
   answered with the error "Invalid JSON", no table is written and no
   rebuild runs. *)
C31_LongEnvelopeIsInvalidJson ==
    \A c \in Conns :
        ReadPartOf(c)
           => /\ conn[c].pc = "Processed"
              /\ conn[c].response = Error("Invalid JSON")
              /\ NothingChanged(c)

====
